---- MODULE Spec2Model ----
(***************************************************************************)
(* Model of the curve / view-state engine of SysamSP5Acquisition.py:       *)
(* the per-tab window_data dictionaries (curves_data, visible_flags,       *)
(* curve_colors, removed_curves, secax, the axis limits and the            *)
(* _previous_* / _initial_* limits) and the handlers that change them.     *)
(*                                                                         *)
(* Numbers are exact rationals <<n, d>> (d > 0, lowest terms) where the    *)
(* program uses binary floating point; names are strings, read character   *)
(* by character as the Python string methods do.  Strings are kept ASCII:  *)
(* "~" stands for the letter e-acute and "^" for its capital.              *)
(***************************************************************************)
EXTENDS Integers, Sequences, FiniteSets, Bags, TLC

(***************************************************************************)
(* Exact rational arithmetic                                               *)
(***************************************************************************)
Abs(i) == IF i < 0 THEN -i ELSE i

RECURSIVE GCD(_, _)
GCD(a, b) == IF b = 0 THEN a ELSE GCD(b, a % b)

\* n/d in lowest terms, d > 0
Reduced(n, d, g) == IF d < 0 THEN <<(-n) \div g, (-d) \div g>> ELSE <<n \div g, d \div g>>
Frac(n, d) == Reduced(n, d, GCD(Abs(n), Abs(d)))

R(i) == <<i, 1>>
\* sums and comparisons: by cross-multiplication while the products fit in
\* the integers of the model checker, else over the least common denominator
Small(a) == Abs(a[1]) < 32768 /\ a[2] < 32768
RAdd(a, b) ==
    IF a[2] = b[2] /\ Small(a) /\ Small(b) THEN Frac(a[1] + b[1], a[2])
    ELSE IF Small(a) /\ Small(b) THEN Frac(a[1] * b[2] + b[1] * a[2], a[2] * b[2])
    ELSE Frac(a[1] * (b[2] \div GCD(a[2], b[2])) + b[1] * (a[2] \div GCD(a[2], b[2])),
              a[2] * (b[2] \div GCD(a[2], b[2])))
RSub(a, b) ==
    IF a[2] = b[2] /\ Small(a) /\ Small(b) THEN Frac(a[1] - b[1], a[2])
    ELSE IF Small(a) /\ Small(b) THEN Frac(a[1] * b[2] - b[1] * a[2], a[2] * b[2])
    ELSE Frac(a[1] * (b[2] \div GCD(a[2], b[2])) - b[1] * (a[2] \div GCD(a[2], b[2])),
              a[2] * (b[2] \div GCD(a[2], b[2])))
RMul(a, b) == Frac(a[1] * b[1], a[2] * b[2])
RDiv(a, b) == Frac(a[1] * b[2], a[2] * b[1])
RNeg(a) == <<-a[1], a[2]>>
RAbs(a) == <<Abs(a[1]), a[2]>>
RLt(a, b) ==
    IF Small(a) /\ Small(b) THEN a[1] * b[2] < b[1] * a[2]
    ELSE a[1] * (b[2] \div GCD(a[2], b[2])) < b[1] * (a[2] \div GCD(a[2], b[2]))
RLe(a, b) ==
    IF Small(a) /\ Small(b) THEN a[1] * b[2] <= b[1] * a[2]
    ELSE a[1] * (b[2] \div GCD(a[2], b[2])) <= b[1] * (a[2] \div GCD(a[2], b[2]))

\* numpy's a.min() / a.max() of a non-empty array, by halves
RMin2(a, b) == IF RLe(a, b) THEN a ELSE b
RMax2(a, b) == IF RLe(b, a) THEN a ELSE b

RECURSIVE RMinIn(_, _, _)
RMinIn(s, lo, hi) ==
    IF lo = hi THEN s[lo]
    ELSE RMin2(RMinIn(s, lo, (lo + hi) \div 2), RMinIn(s, (lo + hi) \div 2 + 1, hi))
RMinSeq(s) == RMinIn(s, 1, Len(s))

RECURSIVE RMaxIn(_, _, _)
RMaxIn(s, lo, hi) ==
    IF lo = hi THEN s[lo]
    ELSE RMax2(RMaxIn(s, lo, (lo + hi) \div 2), RMaxIn(s, (lo + hi) \div 2 + 1, hi))
RMaxSeq(s) == RMaxIn(s, 1, Len(s))

\* np.concatenate of a list of arrays
RECURSIVE Concat(_)
Concat(ss) == IF Len(ss) = 0 THEN <<>> ELSE Head(ss) \o Concat(Tail(ss))

(***************************************************************************)
(* Python string methods used on curve names                               *)
(***************************************************************************)
Char(s, i) == SubSeq(s, i, i)

\* sub in s
Contains(s, sub) ==
    \E i \in 1..(Len(s) - Len(sub) + 1) : SubSeq(s, i, i + Len(sub) - 1) = sub

\* s.replace(c, '') for a one-character c
RECURSIVE RemoveChar(_, _)
RemoveChar(s, c) ==
    IF Len(s) = 0 THEN ""
    ELSE (IF Char(s, 1) = c THEN "" ELSE Char(s, 1)) \o RemoveChar(SubSeq(s, 2, Len(s)), c)

\* s.strip(): the names of the model hold no whitespace but the space
RECURSIVE LStrip(_)
LStrip(s) ==
    IF Len(s) > 0 /\ Char(s, 1) = " " THEN LStrip(SubSeq(s, 2, Len(s))) ELSE s

RECURSIVE RStrip(_)
RStrip(s) ==
    IF Len(s) > 0 /\ Char(s, Len(s)) = " " THEN RStrip(SubSeq(s, 1, Len(s) - 1)) ELSE s

Strip(s) == RStrip(LStrip(s))

\* s.split(c)[-1]: the text after the last c (all of s when c is absent)
SplitLast(s, c) ==
    LET idx == {i \in 1..Len(s) : Char(s, i) = c}
    IN  IF idx = {} THEN s
        ELSE LET k == CHOOSE i \in idx : \A j \in idx : j <= i
             IN  SubSeq(s, k + 1, Len(s))

\* s.split(c)[0]: the text before the first c (all of s when c is absent)
SplitFirst(s, c) ==
    LET idx == {i \in 1..Len(s) : Char(s, i) = c}
    IN  IF idx = {} THEN s
        ELSE LET k == CHOOSE i \in idx : \A j \in idx : i <= j
             IN  SubSeq(s, 1, k - 1)

\* str.lower() on the letters the names of the model are written with
LowerChar(c) ==
    CASE c = "D" -> "d" [] c = "E" -> "e" [] c = "R" -> "r" [] c = "I" -> "i"
      [] c = "V" -> "v" [] c = "U" -> "u" [] c = "A" -> "a" [] c = "T" -> "t"
      [] c = "M" -> "m" [] c = "L" -> "l" [] c = "P" -> "p" [] c = "C" -> "c"
      [] c = "^" -> "~"
      [] OTHER -> c

RECURSIVE Lower(_)
Lower(s) ==
    IF Len(s) = 0 THEN "" ELSE LowerChar(Char(s, 1)) \o Lower(SubSeq(s, 2, Len(s)))

\* A Python value that is either None or a string
NoneStr == [is_none |-> TRUE, s |-> ""]
Str(s) == [is_none |-> FALSE, s |-> s]
\* Python truthiness of such a value: None and '' are false
Truthy(u) == ~u.is_none /\ u.s # ""

extract_unit_from_name(name) ==
    IF name = "" \/ ~Contains(name, "(") \/ ~Contains(name, ")")
    THEN NoneStr
    ELSE Str(Strip(RemoveChar(SplitLast(name, "("), ")")))

get_units_for_model(curve_name_with_unit) ==
    IF Contains(curve_name_with_unit, "(") /\ Contains(curve_name_with_unit, ")")
    THEN Strip(RemoveChar(SplitLast(curve_name_with_unit, "("), ")"))
    ELSE "U.A."

(***************************************************************************)
(* Bounds of the model and the inputs the handlers are given               *)
(***************************************************************************)
\* The notebook holds at most MaxViews tabs
MaxViews == 2
\* The tabs hold at most MaxCurves curves together (curves_data and removed_curves)
MaxCurves == 2

None == "None"

\* Text typed in the duration entry (seconds)
DureeInputs == {Frac(1, 25)}
\* Calibre chosen in the calibre box (volts)
CalibreInputs == {R(5)}
\* Samples the digitizer returns for one block (N_POINTS = their number)
AcqTraces == {<<R(-1), R(-1)>>}
\* Names a curve can be given in the rename dialog
RenameInputs == {"U2 (V)"}
\* Colours of the colour chooser
ColorInputs == {"#ff0000"}
\* Extents the navigation toolbar can leave the axes at (pan / zoom)
ZoomInputs == {<<<<R(0), Frac(1, 100)>>, <<R(-1), R(1)>>>>}
\* Content of the CSV files that can be opened: times, values, header name
CsvFiles ==
    { [t |-> <<R(0), Frac(201, 5000)>>, v |-> <<R(0), R(4)>>, nom |-> "U (V)"],
      [t |-> <<Frac(1, 25)>>, v |-> <<R(0)>>, nom |-> "I (A)"] }
\* Names a CSV header can give a curve: with and without a unit, with an empty
\* unit, with the derivative marker in several cases
NamePool ==
    {"U (V)", "I (A)", "U2 (V)", "Courbe", "x ()", "DERIVE u", "D^RIV^E de U"}
NamedFiles == {[t |-> <<R(0), Frac(1, 25)>>, v |-> <<R(1), R(2)>>, nom |-> n] : n \in NamePool}
\* Curves a .ltp loader can return (empty channels included)
LtpCurves ==
    { [t |-> <<>>, v |-> <<>>, nom |-> "vide (f.ltp)"] }

Curve(t, v, nom, is_raw) == [t |-> t, v |-> v, nom |-> nom, is_raw |-> is_raw]

(***************************************************************************)
(* State                                                                   *)
(***************************************************************************)
VARIABLES
    ALL_PLOT_WINDOWS,    \* the window_data of every tab, in tab order
    active,              \* index of the tab selected in plot_notebook
    Config_DUREE,        \* Config.DUREE
    CALIBRE_AFFICHE,     \* global CALIBRE_AFFICHE
    superposition_var,   \* the "Superposer les courbes" check box
    last,                \* the handler that ran last, and how it ended
    undo                 \* the extents displayed before the last completed auto-fit

vars == <<ALL_PLOT_WINDOWS, active, Config_DUREE, CALIBRE_AFFICHE,
          superposition_var, last, undo>>

(***************************************************************************)
(* matplotlib axes limits                                                  *)
(***************************************************************************)
\* Axes.set_xlim / set_ylim: identical bounds are expanded (nonsingular)
SetLim(lo, hi) ==
    IF lo = hi
    THEN IF lo = R(0) THEN <<Frac(-1, 20), Frac(1, 20)>>
         ELSE <<RSub(lo, RMul(Frac(1, 20), RAbs(lo))), RAdd(hi, RMul(Frac(1, 20), RAbs(hi)))>>
    ELSE <<lo, hi>>

\* a fresh Axes (ax.twinx()) before anything sets its limits
DefaultLim == <<R(0), R(1)>>
NoSecax == [present |-> FALSE, ylim |-> DefaultLim]

DEFAULT_Y_MARGIN == Frac(11, 10)

create_plot_in_frame(curves_data, duree, calibre) ==
    LET x_lim_init == SetLim(R(0), duree)
        y_lim_init == SetLim(RNeg(RMul(calibre, DEFAULT_Y_MARGIN)),
                             RMul(calibre, DEFAULT_Y_MARGIN))
    IN  [ curves_data       |-> curves_data,
          xlim              |-> x_lim_init,
          ylim              |-> y_lim_init,
          previous_x_limits |-> x_lim_init,
          previous_y_limits |-> y_lim_init,
          initial_x_limits  |-> x_lim_init,
          initial_y_limits  |-> y_lim_init,
          secax             |-> NoSecax,
          removed_curves    |-> <<>>,
          visible_flags     |-> <<>>,
          curve_colors      |-> <<>> ]

(***************************************************************************)
(* Helpers: flags, colours, axis classification                            *)
(***************************************************************************)
Pad(s, n, dflt) == s \o [k \in 1..(n - Len(s)) |-> dflt]

sync_visible_flags(w) ==
    LET n == Len(w.curves_data)
        flags == w.visible_flags
    IN  [w EXCEPT !.visible_flags =
            IF Len(flags) < n THEN Pad(flags, n, TRUE)
            ELSE IF Len(flags) > n THEN SubSeq(flags, 1, n)
            ELSE flags]

sync_curve_colors(w) ==
    LET n == Len(w.curves_data)
        colors == w.curve_colors
    IN  [w EXCEPT !.curve_colors =
            IF Len(colors) < n THEN Pad(colors, n, None)
            ELSE IF Len(colors) > n THEN SubSeq(colors, 1, n)
            ELSE colors]

\* 'Dérivée' in nom or 'dérivée' in nom or 'derive' in nom.lower()
HasDerivativeMarker(nom) ==
    \/ Contains(nom, "D~riv~e")
    \/ Contains(nom, "d~riv~e")
    \/ Contains(Lower(nom), "derive")

\* the test of plot_mode_unique and auto_calibrate_plot for curve i (1-based here)
\* unit and primary_unit and unit != primary_unit
units_differ(unit, primary_unit) ==
    Truthy(unit) /\ Truthy(primary_unit) /\ unit.s # primary_unit.s

is_secondary(curves_data, i) ==
    /\ i # 1
    /\ \/ units_differ(extract_unit_from_name(curves_data[i].nom),
                       extract_unit_from_name(curves_data[1].nom))
       \/ HasDerivativeMarker(curves_data[i].nom)

secondary_indices(curves_data) ==
    {i \in 1..Len(curves_data) : is_secondary(curves_data, i)}

(***************************************************************************)
(* Plot rendering: what plot_mode_unique does to the window_data           *)
(***************************************************************************)
\* Variant: the secondary axis of the previous drawing is kept as it is
plot_mode_unique_stale_secax(w) ==
    LET synced == sync_curve_colors(sync_visible_flags(w))
        moved == w.xlim # w.initial_x_limits \/ w.ylim # w.initial_y_limits
    IN  [synced EXCEPT
            !.previous_x_limits = IF moved THEN w.xlim ELSE @,
            !.previous_y_limits = IF moved THEN w.ylim ELSE @]

plot_mode_unique(w) ==
    LET synced == sync_curve_colors(sync_visible_flags(w))
        current_x_lim == w.xlim
        current_y_lim == w.ylim
        moved == current_x_lim # w.initial_x_limits \/ current_y_lim # w.initial_y_limits
        sec == secondary_indices(w.curves_data)
    IN  [synced EXCEPT
            !.previous_x_limits = IF moved THEN current_x_lim ELSE @,
            !.previous_y_limits = IF moved THEN current_y_lim ELSE @,
            \* ax.clear(), then the limits read before it are set again
            !.xlim = IF moved THEN SetLim(current_x_lim[1], current_x_lim[2])
                     ELSE SetLim(w.initial_x_limits[1], w.initial_x_limits[2]),
            !.ylim = IF moved THEN SetLim(current_y_lim[1], current_y_lim[2])
                     ELSE SetLim(w.initial_y_limits[1], w.initial_y_limits[2]),
            \* the old secondary axis is removed; ax.twinx() when a curve needs one
            !.secax = IF sec # {} THEN [present |-> TRUE, ylim |-> DefaultLim]
                      ELSE NoSecax]

(***************************************************************************)
(* Auto-fit and revert                                                     *)
(***************************************************************************)
Indices(n) == [k \in 1..n |-> k]

\* Variant: the visibility flags are not consulted
IsHidden_never(visible_flags, i) == FALSE

\* "if visible_flags and i < len(visible_flags) and not visible_flags[i]: continue"
IsHidden(visible_flags, i) ==
    Len(visible_flags) > 0 /\ i <= Len(visible_flags) /\ ~visible_flags[i]

\* the value arrays, and the time arrays, of the curves at the indices sel
ValuesOf(curves_data, sel) == [k \in 1..Len(sel) |-> curves_data[sel[k]].v]
TimesOf(curves_data, sel) == [k \in 1..Len(sel) |-> curves_data[sel[k]].t]

\* the value arrays auto_calibrate_plot collects for the primary axis
main_vs(w) ==
    LET keep(i) == /\ ~IsHidden(w.visible_flags, i)
                   /\ ~is_secondary(w.curves_data, i)
                   /\ Len(w.curves_data[i].v) > 0
    IN  ValuesOf(w.curves_data, SelectSeq(Indices(Len(w.curves_data)), keep))

\* the value arrays auto_calibrate_plot collects for the secondary axis
sec_vs(w) ==
    LET keep(i) == /\ ~IsHidden(w.visible_flags, i)
                   /\ is_secondary(w.curves_data, i)
                   /\ Len(w.curves_data[i].v) > 0
    IN  ValuesOf(w.curves_data, SelectSeq(Indices(Len(w.curves_data)), keep))

\* the time arrays that are not empty
all_ts(w) ==
    LET keep(i) == Len(w.curves_data[i].t) > 0
    IN  TimesOf(w.curves_data, SelectSeq(Indices(Len(w.curves_data)), keep))

\* Variant: the 5 % margin is left out
x_limits_unpadded(all_t) ==
    LET t_min == RMinSeq(all_t)
        t_max == RMaxSeq(all_t)
    IN  IF RLt(t_min, t_max) THEN <<t_min, t_max>>
        ELSE <<RSub(t_min, Frac(1, 1000)), RAdd(t_max, Frac(1, 1000))>>

\* x limits framing the time samples
x_limits(all_t) ==
    LET t_min == RMinSeq(all_t)
        t_max == RMaxSeq(all_t)
        t_range == RSub(t_max, t_min)
        margin_x == RMul(t_range, Frac(1, 20))
        x_min == RSub(t_min, margin_x)
        x_max == RAdd(t_max, margin_x)
        pad == <<RSub(t_min, Frac(1, 1000)), RAdd(t_max, Frac(1, 1000))>>
    IN  IF RLt(R(0), t_range)
        THEN IF RLe(x_max, x_min) THEN pad ELSE <<x_min, x_max>>
        ELSE pad

\* y limits framing the values of one axis
y_limits(all_v) ==
    LET v_min == RMinSeq(all_v)
        v_max == RMaxSeq(all_v)
        v_range == RSub(v_max, v_min)
        margin_y == RMul(v_range, Frac(1, 10))
    IN  IF RLt(R(0), v_range)
        THEN <<RSub(v_min, margin_y), RAdd(v_max, margin_y)>>
        ELSE << IF v_min # R(0) THEN RSub(v_min, RMul(RAbs(v_min), Frac(1, 10))) ELSE R(-1),
                IF v_max # R(0) THEN RAdd(v_max, RMul(RAbs(v_max), Frac(1, 10))) ELSE R(1) >>

\* ax.set_xlim(x_min, x_max) on a computed pair
SetLimits(l) == SetLim(l[1], l[2])

\* the limits auto_calibrate_plot sets from the arrays it collected
fit_axes(w0, all_t, mains, secs) ==
    [w0 EXCEPT
        !.xlim = SetLimits(x_limits(Concat(all_t))),
        !.ylim = SetLimits(IF Len(mains) > 0 THEN y_limits(Concat(mains))
                           ELSE w0.initial_y_limits),
        !.secax = IF w0.secax.present /\ Len(secs) > 0
                  THEN [present |-> TRUE, ylim |-> SetLimits(y_limits(Concat(secs)))]
                  ELSE @]

\* auto_calibrate_plot once the current limits are stored in _previous_* (w0)
calibrate(w0, all_t, mains, secs) ==
    IF Len(w0.curves_data) = 0
    THEN [w |-> [w0 EXCEPT !.xlim = SetLimits(w0.initial_x_limits),
                           !.ylim = SetLimits(w0.initial_y_limits)],
          raised |-> FALSE]
    ELSE IF Len(all_t) = 0
    THEN [w |-> w0, raised |-> TRUE]
    ELSE [w |-> fit_axes(w0, all_t, mains, secs), raised |-> FALSE]

\* auto_calibrate_plot: the window_data it leaves, and whether it raised
\* (np.concatenate of an empty list raises ValueError)
auto_calibrate_plot(w) ==
    calibrate([w EXCEPT !.previous_x_limits = w.xlim, !.previous_y_limits = w.ylim],
              all_ts(w), main_vs(w), sec_vs(w))

\* Variant: the revert keeps the display it leaves as the next one to go back to
de_calibrate_plot_toggle(w) ==
    LET prev_is_init == /\ w.previous_x_limits = w.initial_x_limits
                        /\ w.previous_y_limits = w.initial_y_limits
        shown_is_init == /\ w.xlim = w.initial_x_limits
                         /\ w.ylim = w.initial_y_limits
        x == IF prev_is_init THEN w.initial_x_limits ELSE w.previous_x_limits
        y == IF prev_is_init THEN w.initial_y_limits ELSE w.previous_y_limits
    IN  IF prev_is_init /\ shown_is_init
        THEN [w |-> w, msg |-> "deja aux limites initiales"]
        ELSE [w |-> [w EXCEPT !.xlim = SetLim(x[1], x[2]),
                              !.ylim = SetLim(y[1], y[2]),
                              !.previous_x_limits = w.xlim,
                              !.previous_y_limits = w.ylim],
              msg |-> ""]

\* Variant: the revert leaves previous_x_limits / previous_y_limits as they are
de_calibrate_plot_keep(w) ==
    LET prev_is_init == /\ w.previous_x_limits = w.initial_x_limits
                        /\ w.previous_y_limits = w.initial_y_limits
        shown_is_init == /\ w.xlim = w.initial_x_limits
                         /\ w.ylim = w.initial_y_limits
        x == IF prev_is_init THEN w.initial_x_limits ELSE w.previous_x_limits
        y == IF prev_is_init THEN w.initial_y_limits ELSE w.previous_y_limits
    IN  IF prev_is_init /\ shown_is_init
        THEN [w |-> w, msg |-> "deja aux limites initiales"]
        ELSE [w |-> [w EXCEPT !.xlim = SetLim(x[1], x[2]),
                              !.ylim = SetLim(y[1], y[2])],
              msg |-> ""]

\* de_calibrate_plot: the window_data it leaves, and the message box it shows
de_calibrate_plot(w) ==
    LET prev_is_init == /\ w.previous_x_limits = w.initial_x_limits
                        /\ w.previous_y_limits = w.initial_y_limits
        shown_is_init == /\ w.xlim = w.initial_x_limits
                         /\ w.ylim = w.initial_y_limits
        x == IF prev_is_init THEN w.initial_x_limits ELSE w.previous_x_limits
        y == IF prev_is_init THEN w.initial_y_limits ELSE w.previous_y_limits
    IN  IF prev_is_init /\ shown_is_init
        THEN [w |-> w, msg |-> "deja aux limites initiales"]
        ELSE [w |-> [w EXCEPT !.xlim = SetLim(x[1], x[2]),
                              !.ylim = SetLim(y[1], y[2]),
                              !.previous_x_limits = w.initial_x_limits,
                              !.previous_y_limits = w.initial_y_limits],
              msg |-> ""]

\* Variant: only the active tab is updated
update_all_xaxis_active(windows, duree) ==
    [k \in 1..Len(windows) |->
        IF k # active THEN windows[k]
        ELSE [windows[k] EXCEPT !.xlim = SetLim(R(0), duree),
                                !.ylim = SetLim(windows[k].ylim[1], windows[k].ylim[2]),
                                !.initial_x_limits = <<R(0), duree>>,
                                !.previous_x_limits = <<R(0), duree>>]]

\* the loop of update_fe_and_xaxis over ALL_PLOT_WINDOWS, for a valid duree
update_all_xaxis(windows, duree) ==
    [k \in 1..Len(windows) |->
        [windows[k] EXCEPT !.xlim = SetLim(R(0), duree),
                           !.ylim = SetLim(windows[k].ylim[1], windows[k].ylim[2]),
                           !.initial_x_limits = <<R(0), duree>>,
                           !.previous_x_limits = <<R(0), duree>>]]

(***************************************************************************)
(* Curve management                                                        *)
(***************************************************************************)
RemoveAt(s, i) == SubSeq(s, 1, i - 1) \o SubSeq(s, i + 1, Len(s))

\* Variant: the colour of the removed curve stays in curve_colors
remove_curve_keep_colors(w, idx) ==
    IF idx > Len(w.curves_data)
    THEN [w |-> w, msg |-> "Impossible de supprimer la courbe"]
    ELSE [w |-> plot_mode_unique(
                  [w EXCEPT
                     !.curves_data = RemoveAt(@, idx),
                     !.visible_flags = IF idx <= Len(@) THEN RemoveAt(@, idx) ELSE @,
                     !.removed_curves = Append(@, w.curves_data[idx])]),
          msg |-> ""]

\* remove_curve for idx in 1..Len(curves_data) + 1 (the last one is out of range:
\* list.pop raises IndexError, caught, and nothing has changed)
remove_curve(w, idx) ==
    IF idx > Len(w.curves_data)
    THEN [w |-> w, msg |-> "Impossible de supprimer la courbe"]
    ELSE [w |-> plot_mode_unique(
                  [w EXCEPT
                     !.curves_data = RemoveAt(@, idx),
                     !.visible_flags = IF idx <= Len(@) THEN RemoveAt(@, idx) ELSE @,
                     !.curve_colors = IF idx <= Len(@) THEN RemoveAt(@, idx) ELSE @,
                     !.removed_curves = Append(@, w.curves_data[idx])]),
          msg |-> ""]

\* restore_curve for removed_index in 1..Len(removed_curves) + 1
restore_curve(w, removed_index) ==
    IF Len(w.removed_curves) = 0 \/ removed_index > Len(w.removed_curves)
    THEN w
    ELSE plot_mode_unique(
            sync_curve_colors(sync_visible_flags(
                [w EXCEPT !.removed_curves = RemoveAt(@, removed_index),
                          !.curves_data = Append(@, w.removed_curves[removed_index])])))

(***************************************************************************)
(* The handlers                                                            *)
(***************************************************************************)
W == ALL_PLOT_WINDOWS[active]

Stored(w) == Len(w.curves_data) + Len(w.removed_curves)

RECURSIVE SumStored(_)
SumStored(windows) ==
    IF Len(windows) = 0 THEN 0 ELSE Stored(Head(windows)) + SumStored(Tail(windows))

\* the number of curves all the tabs hold
TotalStored == SumStored(ALL_PLOT_WINDOWS)

\* last and undo record the history the properties speak of: last is the
\* handler that ran last, whether it ended an auto-fit of the active tab, and
\* the message it showed ("" when it ran to its end without one); undo is the
\* display the last auto-fit started from.  A specification chooses in its
\* initial state how much is recorded: Started records all of last, Outcome
\* only fit and whether there was an error, Untracked / UntrackedUndo nothing,
\* and what is not recorded never changes
Untracked == [op |-> "untracked", fit |-> FALSE, msg |-> ""]
Outcome == [op |-> "outcome", fit |-> FALSE, msg |-> ""]
Started == [op |-> "setup_main_window", fit |-> FALSE, msg |-> ""]
Done(op, fit, msg) ==
    CASE last = Untracked -> Untracked
      [] last.op = Outcome.op ->
            [Outcome EXCEPT !.fit = fit, !.msg = IF msg = "" THEN "" ELSE "error"]
      [] OTHER -> [op |-> op, fit |-> fit, msg |-> msg]

UntrackedUndo == [view |-> -1, x |-> DefaultLim, y |-> DefaultLim]
NoUndo == IF undo = UntrackedUndo THEN UntrackedUndo
          ELSE [view |-> 0, x |-> DefaultLim, y |-> DefaultLim]

\* the extents a completed auto-fit started from
Armed(pre) == IF undo = UntrackedUndo THEN UntrackedUndo
              ELSE [view |-> active, x |-> pre.xlim, y |-> pre.ylim]

\* plot_mode_unique(w) followed by auto_calibrate_plot(w), as most handlers end
\* (pre: the window_data between the two)
Fitted(res, pre) == [w |-> res.w, raised |-> res.raised, pre |-> pre]
RedrawFrom(pre) == Fitted(auto_calibrate_plot(pre), pre)
Redraw(w) == RedrawFrom(plot_mode_unique(w))

\* sysam_interface.temps(): N_POINTS sample times spaced by DUREE / N_POINTS
acq_temps(duree, n) == [k \in 1..n |-> RMul(R(k - 1), RDiv(duree, R(n)))]

acq_name(voie) == "Tension (V) (EA" \o voie \o ")"

\* start_acquisition_and_plot in Normal mode.  outcome: "ok", or the step that
\* raised: "param" (the number of points is not positive: ValueError), "sysam"
\* (opening or configuring the interface, before the curves are touched) or
\* "read" (from config_echantillon to the read-out)
StartAcquisitionAndPlot ==
    \E duree \in DureeInputs, calibre \in CalibreInputs, tension_data \in AcqTraces,
       voie \in {"0"}, outcome \in {"ok", "param", "sysam", "read"} :
        \E kept \in {IF superposition_var THEN W.curves_data ELSE <<>>} :
            /\ Config_DUREE' = duree
            /\ CASE outcome = "param" ->
                      /\ UNCHANGED <<ALL_PLOT_WINDOWS, CALIBRE_AFFICHE>>
                      /\ last' = Done("start_acquisition_and_plot", FALSE, "Erreur de Parametre")
                      /\ undo' = NoUndo
                 [] outcome = "sysam" ->
                      /\ CALIBRE_AFFICHE' = calibre
                      /\ UNCHANGED ALL_PLOT_WINDOWS
                      /\ last' = Done("start_acquisition_and_plot", FALSE, "Erreur Pycanum/Materiel")
                      /\ undo' = NoUndo
                 [] outcome = "read" ->
                      /\ CALIBRE_AFFICHE' = calibre
                      /\ ALL_PLOT_WINDOWS' =
                            [ALL_PLOT_WINDOWS EXCEPT ![active].curves_data = kept]
                      /\ last' = Done("start_acquisition_and_plot", FALSE, "Erreur Pycanum/Materiel")
                      /\ undo' = NoUndo
                 [] OTHER ->
                      /\ TotalStored - Len(W.curves_data) + Len(kept) < MaxCurves
                      /\ CALIBRE_AFFICHE' = calibre
                      /\ \E res \in {Redraw([W EXCEPT !.curves_data =
                                Append(kept, Curve(acq_temps(duree, Len(tension_data)),
                                                   tension_data, acq_name(voie), TRUE))])} :
                            /\ ALL_PLOT_WINDOWS' = [ALL_PLOT_WINDOWS EXCEPT ![active] = res.w]
                            /\ last' = Done("start_acquisition_and_plot", ~res.raised,
                                            IF res.raised THEN "Erreur de Parametre" ELSE "")
                            /\ undo' = Armed(res.pre)
            /\ UNCHANGED <<active, superposition_var>>

\* f"{x:.3f}" read back by float(): x rounded to a multiple of 1/1000 (x >= 0)
Round3(x) == Frac((2 * 1000 * x[1] + x[2]) \div (2 * x[2]), 1000)

\* np.ceil
Ceil(x) == R(-((-x[1]) \div x[2]))

\* np.max(np.abs(v))
MaxAbs(v) == RMaxSeq([k \in 1..Len(v) |-> RAbs(v[k])])

\* update_fe_and_xaxis on the texts of the duration and point-number entries
\* (n_ok: the point number is a positive integer): windows and Config.DUREE after it
update_fe_and_xaxis(windows, config_duree, duree, n_ok) ==
    IF RLt(R(0), duree) /\ n_ok
    THEN [windows |-> update_all_xaxis(windows, duree), duree |-> duree]
    ELSE [windows |-> windows, duree |-> config_duree]

\* The <Return> binding of the duration and point-number entries
UpdateFeAndXaxis ==
    \E duree \in DureeInputs, n_ok \in BOOLEAN :
        \E res \in {update_fe_and_xaxis(ALL_PLOT_WINDOWS, Config_DUREE, duree, n_ok)} :
            /\ ALL_PLOT_WINDOWS' = res.windows
            /\ Config_DUREE' = res.duree
            /\ last' = Done("update_fe_and_xaxis", FALSE, "")
            /\ undo' = NoUndo
            /\ UNCHANGED <<active, CALIBRE_AFFICHE, superposition_var>>

\* menu_ouvrir: a CSV file with at least one valid row, or one that cannot be read
menu_ouvrir(files) ==
    \/ /\ last' = Done("menu_ouvrir", FALSE, "Erreur d'Ouverture")
       /\ undo' = NoUndo
       /\ UNCHANGED <<ALL_PLOT_WINDOWS, active, Config_DUREE, CALIBRE_AFFICHE, superposition_var>>
    \/ \E f \in files, n_ok \in BOOLEAN :
        \E kept \in {IF superposition_var THEN W.curves_data ELSE <<>>} :
        /\ TotalStored - Len(W.curves_data) + Len(kept) < MaxCurves
        /\ \E upd \in {update_fe_and_xaxis(
                        [ALL_PLOT_WINDOWS EXCEPT ![active].curves_data =
                            Append(kept, Curve(f.t, f.v, f.nom, TRUE))],
                        RMaxSeq(f.t), Round3(RMaxSeq(f.t)), n_ok)} :
           \E c \in {Ceil(RMul(MaxAbs(f.v), Frac(11, 10)))} :
           \E res \in {Redraw(upd.windows[active])} :
            /\ ALL_PLOT_WINDOWS' = [upd.windows EXCEPT ![active] = res.w]
            /\ Config_DUREE' = upd.duree
            /\ CALIBRE_AFFICHE' = IF c = R(0) THEN R(10) ELSE c
            /\ last' = Done("menu_ouvrir", ~res.raised,
                            IF res.raised THEN "Erreur d'Ouverture" ELSE "")
            /\ undo' = Armed(res.pre)
            /\ UNCHANGED <<active, superposition_var>>

\* Fichier > Ouvrir on one of the CSV files
MenuOuvrir == menu_ouvrir(CsvFiles)

\* Fichier > Ouvrir on a file whose header carries any of the names
MenuOuvrirNamed == menu_ouvrir(NamedFiles)

\* menu_ouvrir_ltp: the loader's curves are appended one by one; fail_at = k > 0:
\* interpreting item k raises after the items before it were appended
MenuOuvrirLtp ==
    \/ /\ last' = Done("menu_ouvrir_ltp", FALSE, "Aucune fonction de lecture .ltp")
       /\ undo' = NoUndo
       /\ UNCHANGED <<ALL_PLOT_WINDOWS, active, Config_DUREE, CALIBRE_AFFICHE, superposition_var>>
    \/ \E n \in 1..MaxCurves :
       \E data \in [1..n -> LtpCurves], fail_at \in 0..n :
        \E added \in {IF fail_at = 0 THEN n ELSE fail_at - 1} :
        /\ TotalStored + added <= MaxCurves
        /\ \E w1 \in {[W EXCEPT !.curves_data =
                     @ \o [k \in 1..added |-> Curve(data[k].t, data[k].v, data[k].nom, TRUE)]]} :
            /\ IF fail_at > 0
               THEN /\ ALL_PLOT_WINDOWS' = [ALL_PLOT_WINDOWS EXCEPT ![active] = w1]
                    /\ last' = Done("menu_ouvrir_ltp", FALSE, "Erreur lors de l'interpretation")
                    /\ undo' = NoUndo
               ELSE \E res \in {Redraw(w1)} :
                    /\ ALL_PLOT_WINDOWS' = [ALL_PLOT_WINDOWS EXCEPT ![active] = res.w]
                    /\ last' = Done("menu_ouvrir_ltp", ~res.raised,
                                    IF res.raised THEN "ValueError" ELSE "")
                    /\ undo' = IF res.raised THEN NoUndo ELSE Armed(res.pre)
            /\ UNCHANGED <<active, Config_DUREE, CALIBRE_AFFICHE, superposition_var>>

\* What an operation between an auto-fit and its revert leaves of undo
KeepUndo == undo' = undo

\* "Gérer les courbes": the dialog syncs the flags when it opens; Supprimer
RemoveCurve ==
    \E idx \in 1..(Len(W.curves_data) + 1) :
        \E res \in {IF idx <= Len(W.curves_data)
                    THEN remove_curve(sync_visible_flags(W), idx)
                    ELSE remove_curve(W, idx)} :
            /\ ALL_PLOT_WINDOWS' = [ALL_PLOT_WINDOWS EXCEPT ![active] = res.w]
            /\ last' = Done("remove_curve", FALSE, res.msg)
            /\ KeepUndo
            /\ UNCHANGED <<active, Config_DUREE, CALIBRE_AFFICHE, superposition_var>>

\* "Gérer les courbes": Restaurer la sélection
RestoreCurve ==
    \E removed_index \in 1..(Len(W.removed_curves) + 1) :
        LET w2 == IF removed_index <= Len(W.removed_curves)
                  THEN restore_curve(sync_visible_flags(W), removed_index)
                  ELSE restore_curve(W, removed_index)
        IN  /\ ALL_PLOT_WINDOWS' = [ALL_PLOT_WINDOWS EXCEPT ![active] = w2]
            /\ last' = Done("restore_curve", FALSE, "")
            /\ KeepUndo
            /\ UNCHANGED <<active, Config_DUREE, CALIBRE_AFFICHE, superposition_var>>

\* "Gérer les courbes": the check box of curve i
ToggleVisible ==
    \E i \in 1..Len(W.curves_data) :
        LET w1 == sync_visible_flags(W)
            w2 == plot_mode_unique([w1 EXCEPT !.visible_flags[i] = ~@])
        IN  /\ ALL_PLOT_WINDOWS' = [ALL_PLOT_WINDOWS EXCEPT ![active] = w2]
            /\ last' = Done("toggle", FALSE, "")
            /\ KeepUndo
            /\ UNCHANGED <<active, Config_DUREE, CALIBRE_AFFICHE, superposition_var>>

rename_curve_dialog(w, idx, new_name) ==
    plot_mode_unique([w EXCEPT !.curves_data[idx].nom = Strip(new_name)])

RenameCurve ==
    \E idx \in 1..Len(W.curves_data), new_name \in RenameInputs :
        /\ ALL_PLOT_WINDOWS' =
              [ALL_PLOT_WINDOWS EXCEPT ![active] = rename_curve_dialog(W, idx, new_name)]
        /\ last' = Done("rename_curve_dialog", FALSE, "")
        /\ KeepUndo
        /\ UNCHANGED <<active, Config_DUREE, CALIBRE_AFFICHE, superposition_var>>

recolor_curve_dialog(w, idx, color) ==
    plot_mode_unique([sync_curve_colors(w) EXCEPT !.curve_colors[idx] = color])

RecolorCurve ==
    \E idx \in 1..Len(W.curves_data), color \in ColorInputs :
        /\ ALL_PLOT_WINDOWS' =
              [ALL_PLOT_WINDOWS EXCEPT ![active] = recolor_curve_dialog(W, idx, color)]
        /\ last' = Done("recolor_curve_dialog", FALSE, "")
        /\ KeepUndo
        /\ UNCHANGED <<active, Config_DUREE, CALIBRE_AFFICHE, superposition_var>>

\* "Calibrage Auto" of the popup and Options menus
AutoCalibratePlot ==
    \E res \in {auto_calibrate_plot(W)} :
        /\ ALL_PLOT_WINDOWS' = [ALL_PLOT_WINDOWS EXCEPT ![active] = res.w]
        /\ last' = Done("auto_calibrate_plot", ~res.raised,
                        IF res.raised THEN "ValueError" ELSE "")
        /\ undo' = IF res.raised THEN NoUndo ELSE Armed(W)
        /\ UNCHANGED <<active, Config_DUREE, CALIBRE_AFFICHE, superposition_var>>

\* "Décalibrer" of the popup and Options menus
DeCalibratePlot ==
    \E res \in {de_calibrate_plot(W)} :
        /\ ALL_PLOT_WINDOWS' = [ALL_PLOT_WINDOWS EXCEPT ![active] = res.w]
        /\ last' = Done("de_calibrate_plot", FALSE, res.msg)
        /\ undo' = IF undo.view = active THEN NoUndo ELSE undo
        /\ UNCHANGED <<active, Config_DUREE, CALIBRE_AFFICHE, superposition_var>>

\* Pan / zoom with the navigation toolbar of the tab
NavigationToolbar ==
    \E z \in ZoomInputs :
        /\ ALL_PLOT_WINDOWS' = [ALL_PLOT_WINDOWS EXCEPT ![active].xlim = SetLim(z[1][1], z[1][2]),
                                                        ![active].ylim = SetLim(z[2][1], z[2][2])]
        /\ last' = Done("toolbar", FALSE, "")
        /\ undo' = NoUndo
        /\ UNCHANGED <<active, Config_DUREE, CALIBRE_AFFICHE, superposition_var>>

\* "Nouvelle fenêtre graphique (Onglet)": open_new_plot_window_tab()
open_new_plot_window_tab(curves_to_plot, duree, calibre) ==
    LET w == plot_mode_unique(create_plot_in_frame(curves_to_plot, duree, calibre))
    IN  IF Len(curves_to_plot) > 0 THEN auto_calibrate_plot(w).w ELSE w

OpenNewPlotWindowTab ==
    /\ Len(ALL_PLOT_WINDOWS) < MaxViews
    /\ ALL_PLOT_WINDOWS' =
          Append(ALL_PLOT_WINDOWS, open_new_plot_window_tab(<<>>, Config_DUREE, CALIBRE_AFFICHE))
    /\ active' = Len(ALL_PLOT_WINDOWS) + 1
    /\ last' = Done("open_new_plot_window_tab", FALSE, "")
    /\ undo' = NoUndo
    /\ UNCHANGED <<Config_DUREE, CALIBRE_AFFICHE, superposition_var>>

\* The user selects another tab of the notebook
SelectTab ==
    \E i \in 1..Len(ALL_PLOT_WINDOWS) :
        /\ i # active
        /\ active' = i
        /\ last' = Done("select_tab", FALSE, "")
        /\ undo' = NoUndo
        /\ UNCHANGED <<ALL_PLOT_WINDOWS, Config_DUREE, CALIBRE_AFFICHE, superposition_var>>

\* The "Superposer les courbes" check box
ToggleSuperposition ==
    /\ superposition_var' = ~superposition_var
    /\ last' = Done("superposition", FALSE, "")
    /\ undo' = NoUndo
    /\ UNCHANGED <<ALL_PLOT_WINDOWS, active, Config_DUREE, CALIBRE_AFFICHE>>

(***************************************************************************)
(* Derivative                                                              *)
(***************************************************************************)
\* np.diff(tension) / np.diff(temps)
derivee(temps, tension) ==
    [i \in 1..(Len(temps) - 1) |->
        RDiv(RSub(tension[i + 1], tension[i]), RSub(temps[i + 1], temps[i]))]

\* Variant: each derivative sample is timed at the left sample
temps_derivee_left(temps) == [i \in 1..(Len(temps) - 1) |-> temps[i]]

\* (temps[:-1] + temps[1:]) / 2
temps_derivee(temps) ==
    [i \in 1..(Len(temps) - 1) |-> RDiv(RAdd(temps[i], temps[i + 1]), R(2))]

\* Variant: the name of the derivative carries no marker
grandeur_derivee_plain(base_name) ==
    "d(" \o Strip(SplitFirst(base_name, "(")) \o ")/dt ("
        \o get_units_for_model(base_name) \o "/s)"

grandeur_derivee(base_name) ==
    "D~riv~e d(" \o Strip(SplitFirst(base_name, "(")) \o ")/dt ("
        \o get_units_for_model(base_name) \o "/s)"

Reported(res, msg) == [w |-> res.w, raised |-> res.raised, msg |-> msg, pre |-> res.pre]

\* Variant: the length of the selected curve is not tested
calculer_derivee_unguarded(w, index) ==
    LET c == w.curves_data[index]
    IN  Reported(Redraw([w EXCEPT !.curves_data =
                            Append(@, Curve(temps_derivee(c.t), derivee(c.t, c.v),
                                            grandeur_derivee(c.nom), FALSE))]), "")

\* calculer_derivee on the curve selected in the dialog
calculer_derivee(w, index) ==
    LET c == w.curves_data[index]
    IN  IF Len(c.t) < 2
        THEN [w |-> w, raised |-> FALSE, msg |-> "trop courte", pre |-> w]
        ELSE Reported(Redraw([w EXCEPT !.curves_data =
                            Append(@, Curve(temps_derivee(c.t), derivee(c.t, c.v),
                                            grandeur_derivee(c.nom), FALSE))]), "")

\* Outils > Calculer la derivee, while the tabs hold fewer than max curves
CalculerDeriveeUpTo(max) ==
    \E index \in 1..Len(W.curves_data) :
        \* a curve long enough gets a derivative: no result is computed past max
        /\ Len(W.curves_data[index].t) >= 2 => TotalStored < max
        /\ \E res \in {calculer_derivee(W, index)} :
            /\ res.msg = "" => TotalStored < max
            /\ ALL_PLOT_WINDOWS' = [ALL_PLOT_WINDOWS EXCEPT ![active] = res.w]
            /\ last' = Done("calculer_derivee", res.msg = "" /\ ~res.raised, res.msg)
            /\ undo' = IF res.msg = "" /\ ~res.raised
                       THEN Armed(res.pre) ELSE NoUndo
            /\ UNCHANGED <<active, Config_DUREE, CALIBRE_AFFICHE, superposition_var>>

CalculerDerivee == CalculerDeriveeUpTo(MaxCurves)

(***************************************************************************)
(* Automatic measurements (period, frequency, min/max)                     *)
(***************************************************************************)
\* A Python value that is either None or a float
NoneNum == [is_none |-> TRUE, x |-> R(0)]
Num(x) == [is_none |-> FALSE, x |-> x]

\* an array of whole numbers
RSeq(ints) == [k \in 1..Len(ints) |-> R(ints[k])]

\* np.sum, by halves
RECURSIVE RSumIn(_, _, _)
RSumIn(s, lo, hi) ==
    IF hi < lo THEN R(0)
    ELSE IF lo = hi THEN s[lo]
    ELSE RAdd(RSumIn(s, lo, (lo + hi) \div 2), RSumIn(s, (lo + hi) \div 2 + 1, hi))
RSum(s) == RSumIn(s, 1, Len(s))

\* np.mean of a non-empty array
Mean(s) == RDiv(RSum(s), R(Len(s)))

\* np.diff
Diff(s) == [i \in 1..(Len(s) - 1) |-> RSub(s[i + 1], s[i])]

\* the array in ascending order
RECURSIVE Insert(_, _)
Insert(x, s) ==
    IF Len(s) = 0 THEN <<x>>
    ELSE IF RLe(x, s[1]) THEN <<x>> \o s
    ELSE <<s[1]>> \o Insert(x, Tail(s))

RECURSIVE Sorted(_)
Sorted(s) == IF Len(s) = 0 THEN <<>> ELSE Insert(s[1], Sorted(Tail(s)))

MiddleOf(o) ==
    IF Len(o) % 2 = 1 THEN o[(Len(o) + 1) \div 2]
    ELSE RDiv(RAdd(o[Len(o) \div 2], o[Len(o) \div 2 + 1]), R(2))

\* np.median of a non-empty array
Median(s) == MiddleOf(Sorted(s))

\* np.var: T_std_s is the square root of this number
Variance(s, m) == Mean([k \in 1..Len(s) |-> RMul(RSub(s[k], m), RSub(s[k], m))])

\* what _compute_period_from_peaks returns without a period
NoPeriod(peak_times) ==
    [T_mean_s |-> NoneNum, T_var |-> NoneNum, peak_times |-> peak_times]

\* t[peaks_idx]
TimesAt(t, idx) == [k \in 1..Len(idx) |-> t[idx[k]]]

\* Variant: every local maximum is a peak, whatever its height
peak_times_of_any(t, v, threshold) ==
    LET is_peak(i) == /\ i > 1
                      /\ i < Len(v)
                      /\ RLt(v[i - 1], v[i])
                      /\ RLt(v[i + 1], v[i])
    IN  TimesAt(t, SelectSeq(Indices(Len(v)), is_peak))

\* the times of the local maxima that reach the threshold
peak_times_of(t, v, threshold) ==
    LET is_peak(i) == /\ i > 1
                      /\ i < Len(v)
                      /\ RLt(v[i - 1], v[i])
                      /\ RLt(v[i + 1], v[i])
                      /\ RLe(threshold, v[i])
    IN  TimesAt(t, SelectSeq(Indices(Len(v)), is_peak))

\* tc of the upward crossing between samples i and i + 1
crossing_time(t, v, mean_v, i) ==
    IF v[i + 1] = v[i] THEN t[i]
    ELSE RAdd(t[i], RMul(RDiv(RSub(mean_v, v[i]), RSub(v[i + 1], v[i])),
                         RSub(t[i + 1], t[i])))

CrossingsAt(t, v, mean_v, idx) ==
    [k \in 1..Len(idx) |-> crossing_time(t, v, mean_v, idx[k])]

\* the upward crossings of the mean
crossings(t, v, mean_v) ==
    LET up(i) == i < Len(v) /\ RLt(v[i], mean_v) /\ RLe(mean_v, v[i + 1])
    IN  CrossingsAt(t, v, mean_v, SelectSeq(Indices(Len(v)), up))

\* Variant: the period is the sum of the differences that are kept
period_stats_sum(diffs_good, peak_times) ==
    IF Len(diffs_good) = 0 THEN NoPeriod(peak_times)
    ELSE [T_mean_s |-> Num(RSum(diffs_good)),
          T_var |-> Num(Variance(diffs_good, Mean(diffs_good))),
          peak_times |-> peak_times]

\* the statistics of the differences that are kept
period_stats(diffs_good, peak_times) ==
    IF Len(diffs_good) = 0 THEN NoPeriod(peak_times)
    ELSE [T_mean_s |-> Num(Mean(diffs_good)),
          T_var |-> Num(Variance(diffs_good, Mean(diffs_good))),
          peak_times |-> peak_times]

period_of(peak_times, diffs, med) ==
    LET good(d) == RLt(d, RMul(R(10), med))
    IN  IF RLe(med, R(0)) THEN NoPeriod(peak_times)
        ELSE period_stats(SelectSeq(diffs, good), peak_times)

period_from(peak_times) ==
    IF Len(peak_times) < 2 THEN NoPeriod(<<>>)
    ELSE period_of(peak_times, Diff(peak_times), Median(Diff(peak_times)))

\* the peak times, or the crossings when fewer than two peaks were found
timestamps(t, v, peak_times) ==
    IF Len(peak_times) < 2 THEN crossings(t, v, Mean(v)) ELSE peak_times

period_above(t, v, vmin, amplitude) ==
    IF amplitude = R(0) THEN NoPeriod(<<>>)
    ELSE period_from(timestamps(t, v,
            peak_times_of(t, v, RAdd(vmin, RMul(Frac(1, 5), amplitude)))))

compute_period_from_peaks(t, v) ==
    IF Len(t) < 3 THEN NoPeriod(<<>>)
    ELSE period_above(t, v, RMinSeq(v), RSub(RMaxSeq(v), RMinSeq(v)))

\* Variant: the bounds of the window are excluded
window_mask_open(t, t0, t1) ==
    LET in_window(i) == /\ t0.is_none \/ RLt(t0.x, t[i])
                        /\ t1.is_none \/ RLt(t[i], t1.x)
    IN  SelectSeq(Indices(Len(t)), in_window)

\* the indices where mask is True
window_mask(t, t0, t1) ==
    LET in_window(i) == /\ t0.is_none \/ RLe(t0.x, t[i])
                        /\ t1.is_none \/ RLe(t[i], t1.x)
    IN  SelectSeq(Indices(Len(t)), in_window)

\* Variant: only the times are restricted to the window
windowed_times_only(t, v, mask) == [t |-> TimesAt(t, mask), v |-> v]

\* t[mask], v[mask]
windowed(t, v, mask) == [t |-> TimesAt(t, mask), v |-> TimesAt(v, mask)]

\* measure_on_curve raising RuntimeError(msg)
MeasureError(msg) ==
    [raised |-> TRUE, msg |-> msg, curve_name |-> "", T_mean_s |-> NoneNum,
     T_var |-> NoneNum, f_Hz |-> NoneNum, v_min |-> R(0), v_max |-> R(0),
     n_peaks |-> 0, peak_times |-> <<>>]

frequency(period_mean) ==
    IF ~period_mean.is_none /\ RLt(R(0), period_mean.x)
    THEN Num(RDiv(R(1), period_mean.x))
    ELSE NoneNum

\* the dictionary measure_on_curve returns
measurements(name, v, p) ==
    [raised |-> FALSE, msg |-> "", curve_name |-> name, T_mean_s |-> p.T_mean_s,
     T_var |-> p.T_var, f_Hz |-> frequency(p.T_mean_s),
     v_min |-> RMinSeq(v), v_max |-> RMaxSeq(v),
     n_peaks |-> Len(p.peak_times), peak_times |-> p.peak_times]

measure_arrays(name, a) == measurements(name, a.v, compute_period_from_peaks(a.t, a.v))

measure_window(c, mask) ==
    IF Len(mask) < 2
    THEN MeasureError("La plage temporelle selectionnee contient trop peu de points.")
    ELSE measure_arrays(c.nom, windowed(c.t, c.v, mask))

measure_curve(c, t0, t1) ==
    IF Len(c.t) = 0
    THEN MeasureError("La courbe selectionnee ne contient pas de donnees temporelles.")
    ELSE IF t0.is_none /\ t1.is_none
    THEN measure_arrays(c.nom, [t |-> c.t, v |-> c.v])
    ELSE measure_window(c, window_mask(c.t, t0, t1))

\* measure_on_curve(active_window, curve_index, t0, t1, show_peaks_on_plot=False)
measure_on_curve(w, curve_index, t0, t1) == measure_curve(w.curves_data[curve_index], t0, t1)

\* Contents of the T0 and T1 entries: left empty, or a number of seconds
WindowInputs == {NoneNum, Num(R(0)), Num(R(1)), Num(R(3))}

\* sin(2 pi t / 0.02) in thousandths at the 100 times np.linspace(0, 0.1, 100)
SineLinspace ==
    <<
       0, 312, 593, 815, 955, 1000, 945, 796, 567, 282,
       -32, -342, -618, -833, -964, -999, -934, -776, -541, -251,
       63, 372, 643, 850, 972, 997, 922, 756, 514, 220,
       -95, -401, -667, -866, -979, -994, -910, -735, -486, -189,
       127, 430, 690, 881, 985, 990, 896, 713, 458, 158,
       -158, -458, -713, -896, -990, -985, -881, -690, -430, -127,
       189, 486, 735, 910, 994, 979, 866, 667, 401, 95,
       -220, -514, -756, -922, -997, -972, -850, -643, -372, -63,
       251, 541, 776, 934, 999, 964, 833, 618, 342, 32,
       -282, -567, -796, -945, -1000, -955, -815, -593, -312, 0 >>

\* sin(2 pi t / 0.02) in thousandths at the 100 times 0, 0.001, ..., 0.099
SineArange ==
    <<
       0, 309, 588, 809, 951, 1000, 951, 809, 588, 309,
       0, -309, -588, -809, -951, -1000, -951, -809, -588, -309,
       0, 309, 588, 809, 951, 1000, 951, 809, 588, 309,
       0, -309, -588, -809, -951, -1000, -951, -809, -588, -309,
       0, 309, 588, 809, 951, 1000, 951, 809, 588, 309,
       0, -309, -588, -809, -951, -1000, -951, -809, -588, -309,
       0, 309, 588, 809, 951, 1000, 951, 809, 588, 309,
       0, -309, -588, -809, -951, -1000, -951, -809, -588, -309,
       0, 309, 588, 809, 951, 1000, 951, 809, 588, 309,
       0, -309, -588, -809, -951, -1000, -951, -809, -588, -309 >>

Thousandths(ints) == [k \in 1..Len(ints) |-> Frac(ints[k], 1000)]
SineFiles ==
    { [t |-> [k \in 1..100 |-> Frac(k - 1, 990)], v |-> Thousandths(SineLinspace),
       nom |-> "U (V)"],
      [t |-> [k \in 1..100 |-> Frac(k - 1, 1000)], v |-> Thousandths(SineArange),
       nom |-> "U (V)"] }

\* CSV files to measure: one sample; constant values, from the start or after
\* a first sample; regular peaks; plateaus (no strict maximum); a maximum
\* under the threshold; a gap between peaks; rows out of time order; rows
\* sharing one time; a single peak; two samples
MeasureFiles ==
    { [t |-> RSeq(<<1>>), v |-> RSeq(<<3>>), nom |-> "U (V)"],
      [t |-> RSeq(<<0, 1, 2>>), v |-> RSeq(<<2, 2, 2>>), nom |-> "U (V)"],
      [t |-> RSeq(<<0, 1, 2, 3>>), v |-> RSeq(<<0, 2, 2, 2>>), nom |-> "U (V)"],
      [t |-> RSeq(<<0, 1, 2, 3, 4, 5, 6>>), v |-> RSeq(<<0, 2, 0, 2, 0, 2, 0>>),
       nom |-> "U (V)"],
      [t |-> RSeq(<<0, 1, 2, 3, 4, 5, 6>>), v |-> RSeq(<<0, 4, 4, 0, 4, 4, 0>>),
       nom |-> "U (V)"],
      [t |-> RSeq(<<0, 1, 2, 3, 4, 5, 6>>), v |-> RSeq(<<0, 1, 0, 10, 0, 10, 0>>),
       nom |-> "U (V)"],
      [t |-> RSeq(<<0, 1, 2, 3, 4, 5, 6, 7, 8>>),
       v |-> RSeq(<<0, 1, 0, 10, 10, 0, 10, 10, 0>>), nom |-> "U (V)"],
      [t |-> RSeq(<<0, 1, 2, 3, 4, 5, 6, 7, 8, 100, 101>>),
       v |-> RSeq(<<0, 1, 0, 1, 0, 1, 0, 1, 0, 1, 0>>), nom |-> "U (V)"],
      [t |-> RSeq(<<0, 4, 0, 5, 0, 6, 0, 1, 0>>),
       v |-> RSeq(<<0, 1, 0, 1, 0, 1, 0, 1, 0>>), nom |-> "U (V)"],
      [t |-> RSeq(<<0, 1, 1, 1, 1, 1, 2>>), v |-> RSeq(<<0, 1, 0, 1, 0, 1, 0>>),
       nom |-> "U (V)"],
      [t |-> RSeq(<<0, 1, 2>>), v |-> RSeq(<<0, 5, 0>>), nom |-> "U (V)"],
      [t |-> RSeq(<<0, 1>>), v |-> RSeq(<<0, 5>>), nom |-> "U (V)"] } \cup SineFiles

\* Fichier > Ouvrir on one of the files to measure, in a tab that is still empty
MenuOuvrirMeasure == Len(W.curves_data) = 0 /\ menu_ouvrir(MeasureFiles)

\* what last records of a measurement: the entries of the dialog and the result
Measured(curve_index, t0, t1, meas) ==
    CASE last = Untracked -> Untracked
      [] last.op = Outcome.op ->
            [Outcome EXCEPT !.msg = IF meas.msg = "" THEN "" ELSE "error"]
      [] OTHER -> [op |-> "measure_on_curve", fit |-> FALSE, msg |-> meas.msg,
                   curve_index |-> curve_index, t0 |-> t0, t1 |-> t1, meas |-> meas]

\* "Mesures automatiques", button Calculer: the entries cannot be read as
\* numbers, or measure_on_curve runs and its result or its error is shown
MeasureAutoDialog ==
    \/ /\ Len(W.curves_data) > 0
       /\ last' = Done("measure_auto_dialog", FALSE, "Plage temporelle non valide.")
       /\ UNCHANGED <<ALL_PLOT_WINDOWS, active, Config_DUREE, CALIBRE_AFFICHE,
                      superposition_var, undo>>
    \/ \E curve_index \in 1..Len(W.curves_data), t0 \in WindowInputs, t1 \in WindowInputs :
        \E meas \in {measure_on_curve(W, curve_index, t0, t1)} :
            /\ last' = Measured(curve_index, t0, t1, meas)
            /\ UNCHANGED <<ALL_PLOT_WINDOWS, active, Config_DUREE, CALIBRE_AFFICHE,
                           superposition_var, undo>>

(***************************************************************************)
(* Specifications                                                          *)
(***************************************************************************)
\* setup_main_window: one tab on ALL_CURVES = [], Config at its defaults
InitProgram ==
    /\ ALL_PLOT_WINDOWS = <<create_plot_in_frame(<<>>, Frac(1, 50), R(10))>>
    /\ active = 1
    /\ Config_DUREE = Frac(1, 50)
    /\ CALIBRE_AFFICHE = R(10)
    /\ superposition_var = FALSE

\* The curves of one tab and their display: acquisition, import, derivative,
\* removal, visibility and the auto-fit; of last, the outcome is recorded
Init ==
    /\ InitProgram
    /\ last = Outcome
    /\ undo = UntrackedUndo

Next ==
    \/ StartAcquisitionAndPlot
    \/ MenuOuvrir
    \/ RemoveCurve
    \/ RestoreCurve
    \/ ToggleVisible
    \/ AutoCalibratePlot
    \/ ToggleSuperposition
    \/ CalculerDerivee

Spec == Init /\ [][Next]_vars

\* The curve list of one tab: every handler that adds, removes or renames a
\* curve; of last, the outcome is recorded
NextList ==
    \/ StartAcquisitionAndPlot
    \/ MenuOuvrir
    \/ MenuOuvrirLtp
    \/ ToggleSuperposition
    \/ RemoveCurve
    \/ RestoreCurve
    \/ RenameCurve
    \/ CalculerDerivee

SpecList == Init /\ [][NextList]_vars

\* The calibration state of one tab: auto-fit, revert, toolbar, sampling
\* parameters and the redraws between them; the outcome and undo are recorded
InitView ==
    /\ InitProgram
    /\ last = Outcome
    /\ undo = [view |-> 0, x |-> DefaultLim, y |-> DefaultLim]

NextView ==
    \/ MenuOuvrir
    \/ UpdateFeAndXaxis
    \/ RemoveCurve
    \/ RestoreCurve
    \/ ToggleVisible
    \/ RenameCurve
    \/ AutoCalibratePlot
    \/ DeCalibratePlot
    \/ NavigationToolbar

SpecView == InitView /\ [][NextView]_vars

\* The same handlers with all of last recorded and no undo
InitRevert ==
    /\ InitProgram
    /\ last = Started
    /\ undo = UntrackedUndo

SpecRevert == InitRevert /\ [][NextView]_vars

\* Several tabs: what an operation in one tab does to the others; no history
InitTabs ==
    /\ InitProgram
    /\ last = Untracked
    /\ undo = UntrackedUndo

NextTabs ==
    \/ StartAcquisitionAndPlot
    \/ MenuOuvrir
    \/ UpdateFeAndXaxis
    \/ AutoCalibratePlot
    \/ DeCalibratePlot
    \/ OpenNewPlotWindowTab
    \/ SelectTab

SpecTabs == InitTabs /\ [][NextTabs]_vars

\* The axis of each curve, over the names a file can carry; no history
InitAxis ==
    /\ InitProgram
    /\ last = Untracked
    /\ undo = UntrackedUndo

NextAxis ==
    \/ MenuOuvrirNamed
    \/ ToggleSuperposition
    \/ RemoveCurve

SpecAxis == InitAxis /\ [][NextAxis]_vars

(***************************************************************************)
(* FFT (Fourier spectrum)                                                  *)
(***************************************************************************)
\* The views of the spectrum specification hold at most MaxSpectrumCurves curves
MaxSpectrumCurves == 3
\* Values the amplitudes of a spectrum are drawn from: the moduli of
\* np.fft.rfft are not rational numbers, so that amplitude is any array of
\* the right length over these values
AmpInputs == {R(0), R(1)}

\* Contents of the T0 and T1 entries of the spectrum dialog
FftWindowInputs == {NoneNum, Num(R(1))}

\* np.fft.rfftfreq(N, d=1.0/fe)
rfftfreq(N, fe) == [k \in 1..(N \div 2 + 1) |-> RDiv(RMul(R(k - 1), fe), R(N))]

\* t in time order when a step of t is not positive
fft_times(t) ==
    IF \E i \in 1..(Len(t) - 1) : RLe(t[i + 1], t[i]) THEN Sorted(t) ELSE t

\* fe = 1.0 / np.mean(dt)
fft_fe(t) == RDiv(R(1), Mean(Diff(fft_times(t))))

\* freqs of compute_fft_for_curve (amplitude has the same length)
compute_fft_for_curve(t) ==
    IF Len(t) < 2 THEN <<>> ELSE rfftfreq(Len(t), fft_fe(t))

\* np.hanning(1000) in thousandths: the first half of the window, which is
\* symmetric
HannHalf ==
    << 0, 0, 0, 0, 0, 0, 0, 0, 1, 1, 1, 1, 1, 2, 2, 2,
       3, 3, 3, 4, 4, 4, 5, 5, 6, 6, 7, 7, 8, 8, 9, 9,
       10, 11, 11, 12, 13, 13, 14, 15, 16, 17, 17, 18, 19, 20, 21, 22,
       23, 24, 25, 26, 27, 28, 29, 30, 31, 32, 33, 34, 35, 36, 38, 39,
       40, 41, 42, 44, 45, 46, 48, 49, 50, 52, 53, 55, 56, 57, 59, 60,
       62, 63, 65, 67, 68, 70, 71, 73, 75, 76, 78, 80, 81, 83, 85, 87,
       88, 90, 92, 94, 96, 98, 99, 101, 103, 105, 107, 109, 111, 113, 115, 117,
       119, 121, 123, 125, 127, 129, 131, 134, 136, 138, 140, 142, 145, 147, 149, 151,
       153, 156, 158, 160, 163, 165, 167, 170, 172, 174, 177, 179, 182, 184, 187, 189,
       191, 194, 196, 199, 201, 204, 206, 209, 212, 214, 217, 219, 222, 225, 227, 230,
       233, 235, 238, 241, 243, 246, 249, 251, 254, 257, 260, 262, 265, 268, 271, 273,
       276, 279, 282, 285, 288, 290, 293, 296, 299, 302, 305, 308, 311, 314, 316, 319,
       322, 325, 328, 331, 334, 337, 340, 343, 346, 349, 352, 355, 358, 361, 364, 367,
       370, 373, 376, 379, 382, 385, 389, 392, 395, 398, 401, 404, 407, 410, 413, 416,
       419, 422, 426, 429, 432, 435, 438, 441, 444, 447, 451, 454, 457, 460, 463, 466,
       469, 472, 476, 479, 482, 485, 488, 491, 494, 498, 501, 504, 507, 510, 513, 517,
       520, 523, 526, 529, 532, 535, 538, 542, 545, 548, 551, 554, 557, 560, 564, 567,
       570, 573, 576, 579, 582, 585, 588, 591, 595, 598, 601, 604, 607, 610, 613, 616,
       619, 622, 625, 628, 631, 634, 637, 640, 643, 646, 649, 652, 655, 658, 661, 664,
       667, 670, 673, 676, 679, 682, 685, 688, 691, 694, 697, 699, 702, 705, 708, 711,
       714, 717, 719, 722, 725, 728, 731, 733, 736, 739, 742, 745, 747, 750, 753, 755,
       758, 761, 763, 766, 769, 771, 774, 777, 779, 782, 785, 787, 790, 792, 795, 797,
       800, 802, 805, 807, 810, 812, 815, 817, 820, 822, 824, 827, 829, 832, 834, 836,
       839, 841, 843, 845, 848, 850, 852, 854, 857, 859, 861, 863, 865, 867, 870, 872,
       874, 876, 878, 880, 882, 884, 886, 888, 890, 892, 894, 896, 898, 900, 902, 903,
       905, 907, 909, 911, 912, 914, 916, 918, 919, 921, 923, 925, 926, 928, 929, 931,
       933, 934, 936, 937, 939, 940, 942, 943, 945, 946, 948, 949, 950, 952, 953, 954,
       956, 957, 958, 959, 961, 962, 963, 964, 965, 967, 968, 969, 970, 971, 972, 973,
       974, 975, 976, 977, 978, 979, 980, 981, 981, 982, 983, 984, 985, 985, 986, 987,
       988, 988, 989, 990, 990, 991, 991, 992, 993, 993, 994, 994, 995, 995, 995, 996,
       996, 997, 997, 997, 998, 998, 998, 998, 999, 999, 999, 999, 999, 1000, 1000, 1000,
       1000, 1000, 1000, 1000 >>

hanning(n) == IF n <= 500 THEN HannHalf[n] ELSE HannHalf[1001 - n]

\* cos(2 pi j / 1000) in thousandths for j = 0..250; the other angles by symmetry
CosQuarter ==
    << 1000, 1000, 1000, 1000, 1000, 1000, 999, 999, 999, 998, 998, 998, 997, 997, 996, 996,
       995, 994, 994, 993, 992, 991, 990, 990, 989, 988, 987, 986, 985, 983, 982, 981,
       980, 979, 977, 976, 975, 973, 972, 970, 969, 967, 965, 964, 962, 960, 959, 957,
       955, 953, 951, 949, 947, 945, 943, 941, 939, 937, 934, 932, 930, 927, 925, 923,
       920, 918, 915, 913, 910, 907, 905, 902, 899, 897, 894, 891, 888, 885, 882, 879,
       876, 873, 870, 867, 864, 861, 858, 854, 851, 848, 844, 841, 838, 834, 831, 827,
       824, 820, 816, 813, 809, 805, 802, 798, 794, 790, 786, 782, 778, 775, 771, 766,
       762, 758, 754, 750, 746, 742, 738, 733, 729, 725, 720, 716, 712, 707, 703, 698,
       694, 689, 685, 680, 675, 671, 666, 661, 657, 652, 647, 642, 637, 633, 628, 623,
       618, 613, 608, 603, 598, 593, 588, 583, 578, 572, 567, 562, 557, 552, 546, 541,
       536, 531, 525, 520, 514, 509, 504, 498, 493, 487, 482, 476, 471, 465, 460, 454,
       448, 443, 437, 431, 426, 420, 414, 409, 403, 397, 391, 386, 380, 374, 368, 362,
       356, 351, 345, 339, 333, 327, 321, 315, 309, 303, 297, 291, 285, 279, 273, 267,
       261, 255, 249, 243, 236, 230, 224, 218, 212, 206, 200, 194, 187, 181, 175, 169,
       163, 156, 150, 144, 138, 132, 125, 119, 113, 107, 100, 94, 88, 82, 75, 69,
       63, 57, 50, 44, 38, 31, 25, 19, 13, 6, 0 >>

cos1000(j) ==
    LET r == j % 1000
    IN  IF r <= 250 THEN CosQuarter[r + 1]
        ELSE IF r <= 500 THEN -CosQuarter[501 - r]
        ELSE IF r <= 750 THEN -CosQuarter[r - 499]
        ELSE CosQuarter[1001 - r]

\* cos(2 pi j / 1000) in thousandths at index j + 1, j = 0..999
Cos1000 == [j \in 1..1000 |-> cos1000(j - 1)] \o <<>>

\* x in thousandths, rounded to the nearest
Milli(x) == (2000 * x[1] + x[2]) \div (2 * x[2])

\* np.sum(window) in thousandths
sum_window == BagCardinality([n \in 1..1000 |-> hanning(n) + 1]) - 1000

\* half of one sum of the discrete Fourier transform of vw (in thousandths,
\* below 2000 in absolute value) at bin k, in millionths: the real part with
\* shift = 0, minus the imaginary part with shift = 250 (a quarter turn).
\* The sum is taken as the size of the bag that holds, for each n, the half
\* of the n-th term plus 1000001 (a positive number) times
DftSum(vw, k, shift) ==
    BagCardinality([n \in 1..1000 |->
        ((vw[n] * Cos1000[((k * (n - 1) - shift) % 1000) + 1]) \div 2) + 1000001])
    - 1000001000

\* the whole part of the square root
RECURSIVE ISqrtIn(_, _, _)
ISqrtIn(x, lo, hi) ==
    IF lo = hi THEN lo
    ELSE IF ((lo + hi + 1) \div 2) * ((lo + hi + 1) \div 2) <= x
         THEN ISqrtIn(x, (lo + hi + 1) \div 2, hi)
         ELSE ISqrtIn(x, lo, (lo + hi + 1) \div 2 - 1)
ISqrt(x) == ISqrtIn(x, 0, 46340)

\* np.abs(Vf[k]) in tenths, from the halves of the two sums
rfft_abs(re, im) ==
    ISqrt((re \div 50000) * (re \div 50000) + (im \div 50000) * (im \div 50000))

\* Variant: the amplitudes are normalised by the number of samples
amplitude_by_N(v) ==
    LET mean_v == Mean(v)
        vw == [n \in 1..1000 |->
                 (Milli(RSub(v[n], mean_v)) * hanning(n) + 500) \div 1000] \o <<>>
    IN  [k \in 1..501 |->
            Frac(2 * rfft_abs(DftSum(vw, k - 1, 0), DftSum(vw, k - 1, 250)), 10000)] \o <<>>

\* amplitude of compute_fft_for_curve for 1000 samples, in fixed point:
\* v0 = v - np.mean(v), vw = v0 * window in thousandths, Vf = np.fft.rfft(vw),
\* amplitude = (2.0 / np.sum(window)) * np.abs(Vf)
amplitude(v) ==
    LET mean_v == Mean(v)
        vw == [n \in 1..1000 |->
                 (Milli(RSub(v[n], mean_v)) * hanning(n) + 500) \div 1000] \o <<>>
    IN  [k \in 1..501 |->
            Frac(2 * rfft_abs(DftSum(vw, k - 1, 0), DftSum(vw, k - 1, 250)),
                 sum_window \div 100)] \o <<>>

\* v in the order of np.argsort(t) when a step of t is not positive
fft_values(t, v) ==
    IF \E i \in 1..(Len(t) - 1) : RLe(t[i + 1], t[i])
    THEN [k \in 1..Len(t) |->
            v[CHOOSE i \in 1..Len(t) :
                Cardinality({j \in 1..Len(t) :
                    RLt(t[j], t[i]) \/ (t[j] = t[i] /\ j < i)}) = k - 1]]
    ELSE v

\* 2 sin(2 pi 50 t) and 2 cos(2 pi 50 t) sampled at 1000 Hz for 1 s: one
\* period of 20 samples, in thousandths
Sine50 ==
    << 0, 618, 1176, 1618, 1902, 2000, 1902, 1618, 1176, 618,
       0, -618, -1176, -1618, -1902, -2000, -1902, -1618, -1176, -618 >>

SineTimes == [n \in 1..1000 |-> Frac(n - 1, 1000)] \o <<>>
Sine50Hz ==
    [t |-> SineTimes,
     v |-> [n \in 1..1000 |-> Frac(Sine50[((n - 1) % 20) + 1], 1000)] \o <<>>,
     nom |-> "U (V)"]
Cosine50Hz ==
    [t |-> SineTimes,
     v |-> [n \in 1..1000 |-> Frac(Sine50[((n + 4) % 20) + 1], 1000)] \o <<>>,
     nom |-> "U2 (V)"]
SineFftFiles == {Sine50Hz, Cosine50Hz}

\* the arrays amplitude can be: computed for 1000 samples, and any array of
\* n values of AmpInputs for the other lengths
fft_amplitudes(v, n) ==
    IF Len(v) = 1000 THEN {amplitude(v)} ELSE [1..n -> AmpInputs]

\* the arrays run_fft_and_show passes on, or too_few when the window holds
\* fewer than 2 samples
fft_window(c, t0, t1, mask) ==
    IF t0.is_none /\ t1.is_none THEN [too_few |-> FALSE, t |-> c.t, v |-> c.v]
    ELSE IF Len(mask) < 2 THEN [too_few |-> TRUE, t |-> <<>>, v |-> <<>>]
    ELSE [too_few |-> FALSE, t |-> TimesAt(c.t, mask), v |-> TimesAt(c.v, mask)]

\* what the warnings of run_fft_and_show leave
FftWarning(msg) ==
    /\ last' = Done("fft_dialog", FALSE, msg)
    /\ UNCHANGED <<ALL_PLOT_WINDOWS, active, Config_DUREE, CALIBRE_AFFICHE,
                   superposition_var, undo>>

\* the spectrum opened in a new tab, which becomes the active one
FftShown(freqs, amp, name) ==
    /\ ALL_PLOT_WINDOWS' =
          Append(ALL_PLOT_WINDOWS,
                 open_new_plot_window_tab(<<Curve(freqs, amp, "Spectre FFT de " \o name, FALSE)>>,
                                          Config_DUREE, CALIBRE_AFFICHE))
    /\ active' = Len(ALL_PLOT_WINDOWS) + 1
    /\ last' = Done("fft_dialog", TRUE, "")
    /\ undo' = IF undo = UntrackedUndo THEN UntrackedUndo
               ELSE [view |-> Len(ALL_PLOT_WINDOWS) + 1,
                     x |-> SetLim(R(0), Config_DUREE),
                     y |-> SetLim(RNeg(RMul(CALIBRE_AFFICHE, DEFAULT_Y_MARGIN)),
                                  RMul(CALIBRE_AFFICHE, DEFAULT_Y_MARGIN))]
    /\ UNCHANGED <<Config_DUREE, CALIBRE_AFFICHE, superposition_var>>

\* "Spectre de Fourier (FFT)", button Calculer et Afficher le Spectre, while
\* the notebook and the tabs are below their bounds.  Curves of exactly 2
\* samples inside the window are left out: their Hann window is all zero and
\* the amplitudes are not numbers
FftDialog ==
    \/ /\ Len(W.curves_data) > 0
       /\ FftWarning("Plage temporelle non valide.")
    \/ \E curve_index \in 1..Len(W.curves_data), t0 \in FftWindowInputs, t1 \in FftWindowInputs :
        \E a \in {fft_window(W.curves_data[curve_index], t0, t1,
                             window_mask(W.curves_data[curve_index].t, t0, t1))} :
        \E freqs \in {compute_fft_for_curve(a.t)} :
            IF a.too_few
            THEN FftWarning("La plage temporelle contient trop peu de points.")
            ELSE IF Len(freqs) = 0
            THEN FftWarning("Impossible de calculer la FFT (donnees insuffisantes).")
            ELSE /\ Len(a.t) # 2
                 /\ Len(ALL_PLOT_WINDOWS) < MaxViews
                 /\ TotalStored < MaxSpectrumCurves
                 /\ \E amp \in fft_amplitudes(fft_values(a.t, a.v), Len(freqs)) :
                        FftShown(freqs, amp, W.curves_data[curve_index].nom)

\* The measurements of one imported curve; all of last is recorded
InitMeasure ==
    /\ InitProgram
    /\ last = Started
    /\ undo = UntrackedUndo

NextMeasure ==
    \/ MenuOuvrirMeasure
    \/ MeasureAutoDialog

SpecMeasure == InitMeasure /\ [][NextMeasure]_vars

\* CSV files to derive: the squares of 0..4, one sample, two samples under a
\* name without a unit, rows out of time order
DeriveFiles ==
    { [t |-> RSeq(<<0, 1, 2, 3, 4>>), v |-> RSeq(<<0, 1, 4, 9, 16>>), nom |-> "U (V)"],
      [t |-> RSeq(<<1>>), v |-> RSeq(<<3>>), nom |-> "I (A)"],
      [t |-> RSeq(<<0, 2>>), v |-> RSeq(<<1, 5>>), nom |-> "Courbe"],
      [t |-> RSeq(<<2, 0, 1>>), v |-> RSeq(<<0, 1, 3>>), nom |-> "x ()"] }

MenuOuvrirDerive == menu_ouvrir(DeriveFiles)

CalculerDeriveeSpectrum == CalculerDeriveeUpTo(MaxSpectrumCurves)

\* Derivatives of imported curves; all of last is recorded
InitDerive ==
    /\ InitProgram
    /\ last = Started
    /\ undo = UntrackedUndo

NextDerive ==
    \/ MenuOuvrirDerive
    \/ ToggleSuperposition
    \/ CalculerDeriveeSpectrum

SpecDerive == InitDerive /\ [][NextDerive]_vars

\* CSV files for the spectrum: one sample, three samples, rows out of time order
SpectrumFiles ==
    { [t |-> RSeq(<<1>>), v |-> RSeq(<<3>>), nom |-> "I (A)"],
      [t |-> RSeq(<<0, 1, 2>>), v |-> RSeq(<<0, 5, 0>>), nom |-> "U (V)"],
      [t |-> RSeq(<<2, 0, 1, 3>>), v |-> RSeq(<<0, 1, 3, 1>>), nom |-> "x ()"] }

MenuOuvrirSpectrum == menu_ouvrir(SpectrumFiles)

\* Spectra and derivatives of one imported curve; all of last is recorded
InitSpectrum ==
    /\ InitProgram
    /\ last = Started
    /\ undo = UntrackedUndo

NextSpectrum ==
    \/ MenuOuvrirSpectrum
    \/ CalculerDeriveeSpectrum
    \/ FftDialog

SpecSpectrum == InitSpectrum /\ [][NextSpectrum]_vars

\* Fichier > Ouvrir on one of the two files, before a spectrum is opened
MenuOuvrirSine == Len(ALL_PLOT_WINDOWS) = 1 /\ menu_ouvrir(SineFftFiles)

\* the spectrum dialog in a tab that holds one curve of 1000 samples
FftDialogSine ==
    /\ Len(W.curves_data) = 1
    /\ Len(W.curves_data[1].t) = 1000
    /\ FftDialog

\* The spectrum of a 50 Hz curve and the display of the tabs after it; no history
InitSine ==
    /\ InitProgram
    /\ last = Untracked
    /\ undo = UntrackedUndo

\* the display of the tabs once the spectrum is shown in the second one
SpectrumDisplay ==
    /\ Len(ALL_PLOT_WINDOWS) = 2
    /\ \/ SelectTab
       \/ AutoCalibratePlot
       \/ DeCalibratePlot
       \/ NavigationToolbar

NextSine ==
    \/ MenuOuvrirSine
    \/ FftDialogSine
    \/ SpectrumDisplay

SpecSine == InitSine /\ [][NextSine]_vars

(***************************************************************************)
(* Modelling (curve fitting)                                               *)
(***************************************************************************)
\* The views of the modelling specification hold at most MaxFitCurves curves
MaxFitCurves == 3

\* In the names below & stands for e-grave, @ for tau and ! for the caret of x^n
Models == {"Lineaire", "Affine", "Exp", "Puissance"}

\* the number of parameters curve_fit adjusts: the arity of f_lineaire,
\* f_affine, f_exponentielle and f_puissance after x
NParams(model) ==
    CASE model = "Lineaire" -> 1
      [] model = "Affine" -> 2
      [] model = "Exp" -> 3
      [] model = "Puissance" -> 3

\* popt: parameters curve_fit can return.  The exponential ones have A = 0 and
\* the power ones a whole exponent, so that the samples of the model are
\* rational numbers
FitParams(model) ==
    CASE model = "Lineaire" -> {<<R(2)>>}
      [] model = "Affine" -> {<<R(2), R(1)>>}
      [] model = "Exp" -> {<<R(0), R(1), R(2)>>}
      [] model = "Puissance" -> {<<R(1), R(1), R(0)>>}

\* f"{x:.2e}" and f"{x:.2f}" on the parameters above
Fmt2e(x) ==
    CASE x = R(0) -> "0.00e+00"
      [] x = R(1) -> "1.00e+00"
      [] x = R(2) -> "2.00e+00"
Fmt2f(x) ==
    CASE x = R(0) -> "0.00"
      [] x = R(1) -> "1.00"
      [] x = R(2) -> "2.00"

\* x ** n for a whole n >= 0
RECURSIVE RPow(_, _)
RPow(x, n) == IF n = 0 THEN R(1) ELSE RMul(x, RPow(x, n - 1))

\* max(1e-9, xi): xi < 1e-9 is tested by a division, the product is too
\* large for the integers of the model checker
x_safe(xi) ==
    IF xi[1] <= 0 \/ (xi[2] - 1) \div xi[1] >= 1000000000
    THEN Frac(1, 1000000000) ELSE xi

\* f_lineaire, f_affine, f_exponentielle (A = 0: the exponential term is 0)
\* and f_puissance at one sample
f_model(model, x, popt) ==
    CASE model = "Lineaire" -> RMul(popt[1], x)
      [] model = "Affine" -> RAdd(RMul(popt[1], x), popt[2])
      [] model = "Exp" /\ popt[1] = R(0) -> popt[3]
      [] model = "Puissance" ->
            RAdd(RMul(popt[1], RPow(x_safe(x), popt[2][1])), popt[3])

model_name(model, popt, base_name) ==
    CASE model = "Lineaire" ->
            "Mod&le Lin~aire (y=" \o Fmt2e(popt[1]) \o "x) de " \o base_name
      [] model = "Affine" ->
            "Mod&le Affine (y=" \o Fmt2e(popt[1]) \o "x + " \o Fmt2e(popt[2]) \o ")"
      [] model = "Exp" ->
            "Mod&le Exp. (A=" \o Fmt2e(popt[1]) \o ", @=" \o Fmt2e(popt[2]) \o ")"
      [] model = "Puissance" ->
            "Mod&le Puissance (y=" \o Fmt2e(popt[1]) \o "x!" \o Fmt2f(popt[2])
                \o " + " \o Fmt2e(popt[3]) \o ")"

\* t_data as curve_fit and the model function receive it: modeliser_puissance
\* replaces the times <= 0 by 1e-6
fit_samples(model, t_data) ==
    IF model = "Puissance"
    THEN [k \in 1..Len(t_data) |->
            IF RLe(t_data[k], R(0)) THEN Frac(1, 1000000) ELSE t_data[k]]
    ELSE t_data

\* how curve_fit can end on n samples: with fewer samples than parameters it
\* raises TypeError; otherwise it returns popt or raises RuntimeError when the
\* optimal parameters are not found within maxfev evaluations
curve_fit_outcomes(model, n) ==
    IF n < NParams(model) THEN {"TypeError"} ELSE {"ok", "RuntimeError"}

\* the message box of the except clauses
fit_error(model, outcome) ==
    IF outcome = "RuntimeError" /\ model \in {"Exp", "Puissance"}
    THEN "Ajustement non optimal"
    ELSE "Erreur: " \o outcome

\* Variant: the model curve is stored before curve_fit runs
modeliser_append_first(w, index, model, outcome, popt) ==
    LET c == w.curves_data[index]
        t_data == fit_samples(model, c.t)
        v_modele == [k \in 1..Len(t_data) |-> f_model(model, t_data[k], popt)]
        w1 == [w EXCEPT !.curves_data =
                  Append(@, Curve(t_data, v_modele, model_name(model, popt, c.nom), FALSE))]
    IN  IF outcome # "ok"
        THEN [w |-> w1, raised |-> FALSE, msg |-> fit_error(model, outcome), pre |-> w1]
        ELSE Reported(Redraw(w1), "")

\* modeliser_lineaire, modeliser_affine, modeliser_exponentielle and
\* modeliser_puissance on the curve selected in the dialog
modeliser(w, index, model, outcome, popt) ==
    LET c == w.curves_data[index]
        t_data == fit_samples(model, c.t)
        v_modele == [k \in 1..Len(t_data) |-> f_model(model, t_data[k], popt)]
    IN  IF outcome # "ok"
        THEN [w |-> w, raised |-> FALSE, msg |-> fit_error(model, outcome), pre |-> w]
        ELSE Reported(Redraw([w EXCEPT !.curves_data =
                Append(@, Curve(t_data, v_modele, model_name(model, popt, c.nom), FALSE))]),
                      "")

\* what last records of a fit: the model, the curve selected and how curve_fit ended
Modelled(model, index, outcome, res) ==
    [op |-> "modeliser", fit |-> res.msg = "" /\ ~res.raised,
     msg |-> IF res.raised THEN "Erreur: ValueError" ELSE res.msg,
     model |-> model, index |-> index, outcome |-> outcome]

\* Outils > Modelisation: no curve in the tab, the selection dialog closed
\* without a choice, or the fit of the selected curve
Modeliser ==
    \/ /\ Len(W.curves_data) = 0
       /\ last' = Done("modeliser", FALSE, "Aucune courbe pour la mod~lisation.")
       /\ undo' = NoUndo
       /\ UNCHANGED <<ALL_PLOT_WINDOWS, active, Config_DUREE, CALIBRE_AFFICHE, superposition_var>>
    \/ /\ Len(W.curves_data) > 1
       /\ last' = Done("select_curve_dialog", FALSE, "")
       /\ undo' = NoUndo
       /\ UNCHANGED <<ALL_PLOT_WINDOWS, active, Config_DUREE, CALIBRE_AFFICHE, superposition_var>>
    \/ \E model \in Models, index \in 1..Len(W.curves_data) :
       \E outcome \in curve_fit_outcomes(model, Len(W.curves_data[index].t)),
          popt \in FitParams(model) :
        /\ outcome = "ok" => TotalStored < MaxFitCurves
        /\ \E res \in {modeliser(W, index, model, outcome, popt)} :
            /\ ALL_PLOT_WINDOWS' = [ALL_PLOT_WINDOWS EXCEPT ![active] = res.w]
            /\ last' = Modelled(model, index, outcome, res)
            /\ undo' = IF res.msg = "" /\ ~res.raised THEN Armed(res.pre) ELSE NoUndo
            /\ UNCHANGED <<active, Config_DUREE, CALIBRE_AFFICHE, superposition_var>>

\* CSV files to model: three samples from t = 0, and two samples under a name
\* without a unit
FitFiles ==
    { [t |-> RSeq(<<0, 1, 2>>), v |-> RSeq(<<1, 2, 4>>), nom |-> "U (V)"],
      [t |-> RSeq(<<1, 2>>), v |-> RSeq(<<1, 3>>), nom |-> "Courbe"] }

MenuOuvrirFit == menu_ouvrir(FitFiles)

\* Fits of imported curves; all of last is recorded
InitFit ==
    /\ InitProgram
    /\ last = Started
    /\ undo = UntrackedUndo

NextFit ==
    \/ MenuOuvrirFit
    \/ ToggleSuperposition
    \/ Modeliser

SpecFit == InitFit /\ [][NextFit]_vars

(***************************************************************************)
(* The curve manager                                                       *)
(***************************************************************************)
\* Indices remove_curve and restore_curve can be called with, counted from 0
\* as in the source.  The rows and the list box of "Gérer les courbes" give
\* the indices of what they show; the others are those of any other caller
IndexInputs == (-(MaxCurves + 1))..MaxCurves

\* list.pop(p) on a list of n elements: the position removed, counted from 1
\* (a negative p counts from the end), or 0 when IndexError is raised
PopIndex(n, p) ==
    IF p >= 0 /\ p < n THEN p + 1
    ELSE IF p < 0 /\ -p <= n THEN n + p + 1
    ELSE 0

\* remove_curve with any integer.  pop takes a negative idx from the end of
\* each list; when a later pop raises, the earlier ones are done, the curve is
\* in no list and nothing is redrawn
remove_curve_at(w, p) ==
    IF p >= 0 THEN remove_curve(w, p + 1)
    ELSE LET i == PopIndex(Len(w.curves_data), p)
             fi == PopIndex(Len(w.visible_flags), p)
             ci == PopIndex(Len(w.curve_colors), p)
             w1 == [w EXCEPT !.curves_data = RemoveAt(@, i)]
             w2 == [w1 EXCEPT !.visible_flags = RemoveAt(@, fi)]
             w3 == [w2 EXCEPT !.curve_colors = RemoveAt(@, ci)]
             msg == "Impossible de supprimer la courbe"
         IN  IF i = 0 THEN [w |-> w, msg |-> msg]
             ELSE IF fi = 0 THEN [w |-> w1, msg |-> msg]
             ELSE IF ci = 0 THEN [w |-> w2, msg |-> msg]
             ELSE [w |-> plot_mode_unique(
                           [w3 EXCEPT !.removed_curves = Append(@, w.curves_data[i])]),
                   msg |-> ""]

\* restore_curve with any integer
restore_curve_at(w, p) == IF p < 0 THEN w ELSE restore_curve(w, p + 1)

\* what last records of a call with an index
Indexed(op, msg, p) == [op |-> op, fit |-> FALSE, msg |-> msg, index |-> p]

\* remove_curve(window_data, p); from a row of the dialog, which synced the
\* flags when it opened, when p is the index of a curve
RemoveCurveAt ==
    \E p \in IndexInputs :
        \E w \in {IF p >= 0 /\ p < Len(W.curves_data) THEN sync_visible_flags(W) ELSE W} :
        \E res \in {remove_curve_at(w, p)} :
            /\ ALL_PLOT_WINDOWS' = [ALL_PLOT_WINDOWS EXCEPT ![active] = res.w]
            /\ last' = Indexed("remove_curve", res.msg, p)
            /\ KeepUndo
            /\ UNCHANGED <<active, Config_DUREE, CALIBRE_AFFICHE, superposition_var>>

\* restore_curve(window_data, p); from the list box of the dialog when p is
\* the index of a removed curve
RestoreCurveAt ==
    \E p \in IndexInputs :
        \E w \in {IF p >= 0 /\ p < Len(W.removed_curves) THEN sync_visible_flags(W) ELSE W} :
            /\ ALL_PLOT_WINDOWS' = [ALL_PLOT_WINDOWS EXCEPT ![active] = restore_curve_at(w, p)]
            /\ last' = Indexed("restore_curve", "", p)
            /\ KeepUndo
            /\ UNCHANGED <<active, Config_DUREE, CALIBRE_AFFICHE, superposition_var>>

\* The curves of one tab with their check boxes and colours: acquisition,
\* removal and restoring by index, visibility, colour; all of last is recorded
InitManage ==
    /\ InitProgram
    /\ last = Started
    /\ undo = UntrackedUndo

NextManage ==
    \/ StartAcquisitionAndPlot
    \/ ToggleSuperposition
    \/ RemoveCurveAt
    \/ RestoreCurveAt
    \/ ToggleVisible
    \/ RecolorCurve

SpecManage == InitManage /\ [][NextManage]_vars

(***************************************************************************)
(* The data table                                                          *)
(***************************************************************************)
\* Numbers typed in a cell of the table
EditInputs == {R(3)}

\* CSV file shown in the table: two samples in time order
TableFiles == { [t |-> RSeq(<<1, 2>>), v |-> RSeq(<<1, 2>>), nom |-> "U (V)"] }

MenuOuvrirTable == menu_ouvrir(TableFiles)

\* save_edit of the table of curve curve_index, on the cell of row idx in the
\* column col ("#1": time, otherwise value), with the number newf: the arrays
\* of the table with that element replaced are stored as they are, then the
\* tab is redrawn and fitted
save_edit(w, curve_index, idx, col, newf) ==
    Redraw([w EXCEPT !.curves_data[curve_index] =
               IF col = "#1" THEN [@ EXCEPT !.t[idx] = newf]
               ELSE [@ EXCEPT !.v[idx] = newf]])

\* what last records of an edit: the curve, the row, the column and the number
Edited(curve_index, idx, col, newf, res) ==
    [op |-> "save_edit", fit |-> ~res.raised, msg |-> "",
     index |-> curve_index, row |-> idx, col |-> col, value |-> newf]

\* Outils > Tableau on a curve of the tab, a double click on a cell, then
\* <Return>: a text that is not a number is refused and the entry stays open
SaveEdit ==
    \/ /\ Len(W.curves_data) > 0
       /\ last' = Done("save_edit", FALSE, "Valeur non valide. Saisissez un nombre.")
       /\ undo' = NoUndo
       /\ UNCHANGED <<ALL_PLOT_WINDOWS, active, Config_DUREE, CALIBRE_AFFICHE, superposition_var>>
    \/ \E curve_index \in 1..Len(W.curves_data), col \in {"#1", "#2"}, newf \in EditInputs :
       \E idx \in 1..Len(W.curves_data[curve_index].t) :
       \E res \in {save_edit(W, curve_index, idx, col, newf)} :
            /\ ALL_PLOT_WINDOWS' = [ALL_PLOT_WINDOWS EXCEPT ![active] = res.w]
            /\ last' = Edited(curve_index, idx, col, newf, res)
            /\ undo' = Armed(res.pre)
            /\ UNCHANGED <<active, Config_DUREE, CALIBRE_AFFICHE, superposition_var>>

\* Edits in the table of imported curves; all of last is recorded
InitTable ==
    /\ InitProgram
    /\ last = Started
    /\ undo = UntrackedUndo

NextTable ==
    \/ MenuOuvrirTable
    \/ ToggleSuperposition
    \/ SaveEdit

SpecTable == InitTable /\ [][NextTable]_vars

(***************************************************************************)
(* New curves in a tab with hidden and recoloured curves                   *)
(***************************************************************************)
\* Every handler that adds a curve to the active tab, with the check boxes
\* and the colours of the curves; all of last is recorded
NextAdd ==
    \/ StartAcquisitionAndPlot
    \/ MenuOuvrirTable
    \/ CalculerDerivee
    \/ ToggleSuperposition
    \/ ToggleVisible
    \/ RecolorCurve

SpecAdd == InitManage /\ [][NextAdd]_vars

(***************************************************************************)
(* Properties                                                              *)
(***************************************************************************)
Windows == 1..Len(ALL_PLOT_WINDOWS)
Shown(w) == <<w.xlim, w.ylim>>
Previous(w) == <<w.previous_x_limits, w.previous_y_limits>>
Initial(w) == <<w.initial_x_limits, w.initial_y_limits>>

\* C1: when an operation that changed the curve list of the view returns,
\* successfully or not, visible_flags, curves_data and curve_colors have the
\* same length
C1_FlagsMatchCurves ==
    [][W'.curves_data # W.curves_data =>
            /\ Len(W'.visible_flags) = Len(W'.curves_data)
            /\ Len(W'.curve_colors) = Len(W'.curves_data)]_vars

C3_PreviousOnlyByAutoFit ==
    [][\A k \in Windows :
          Previous(ALL_PLOT_WINDOWS'[k]) # Previous(ALL_PLOT_WINDOWS[k])
              => last'.fit /\ k = active]_vars

\* C4: a de_calibrate that follows an auto-fit, with only visibility toggles,
\* renames, removals and restorations in between, displays the extents that
\* were displayed just before that auto-fit
C4_RevertRestoresPreFit ==
    [][DeCalibratePlot /\ undo.view = active =>
            W'.xlim = undo.x /\ W'.ylim = undo.y]_vars

C6_Revert ==
    [][DeCalibratePlot =>
        /\ Previous(W) = Initial(W) /\ Shown(W) = Initial(W)
              => /\ UNCHANGED <<ALL_PLOT_WINDOWS, active, Config_DUREE,
                                CALIBRE_AFFICHE, superposition_var>>
                 /\ last'.msg # ""
        /\ Previous(W) = Initial(W) /\ Shown(W) # Initial(W)
              => Shown(W') = Initial(W)
        /\ Shown(W') # Shown(W) => Previous(W') = Initial(W')]_vars

\* a de_calibrate has just brought a display that was elsewhere back to
\* initial_extents
C6_Witness ==
    /\ last.op = "de_calibrate_plot"
    /\ last.msg = ""
    /\ Shown(W) = Initial(W)
    /\ Len(W.curves_data) > 0

\* the derivative marker, whatever the case of its letters
MarkerAnyCase(nom) ==
    Contains(Lower(nom), "d~riv~e") \/ Contains(Lower(nom), "derive")

\* C7: the curve at index 0 is never secondary, and a later curve is secondary
\* if and only if its unit and the unit of the first curve are both non-empty
\* and differ, or its name contains the derivative marker in any case
C7_Classification ==
    \A k \in Windows :
        LET curves == ALL_PLOT_WINDOWS[k].curves_data
        IN  \A i \in 1..Len(curves) :
                LET unit == extract_unit_from_name(curves[i].nom)
                    primary_unit == extract_unit_from_name(curves[1].nom)
                IN  is_secondary(curves, i) <=>
                        /\ i > 1
                        /\ \/ /\ Truthy(unit)
                              /\ Truthy(primary_unit)
                              /\ unit.s # primary_unit.s
                           \/ MarkerAnyCase(curves[i].nom)

\* C8: when an operation that changed the curve list or a name has run to its
\* end, the view has a secondary axis if and only if a curve is secondary
C8_SecondaryAxis ==
    [][W'.curves_data # W.curves_data /\ last'.msg = "" =>
            (W'.secax.present <=> secondary_indices(W'.curves_data) # {})]_vars

\* an import or a derivative has added a curve that is on the secondary axis
C8_Witness ==
    /\ last.msg = ""
    /\ last.fit
    /\ Len(W.curves_data) = 2
    /\ W.secax.present
    /\ Len(W.removed_curves) = 0

Range(seq) == {seq[k] : k \in 1..Len(seq)}
RMinSet(S) == CHOOSE x \in S : \A y \in S : RLe(x, y)
RMaxSet(S) == CHOOSE x \in S : \A y \in S : RLe(y, x)
TimeSamples(w) == UNION {Range(c.t) : c \in Range(w.curves_data)}

\* C9: after an auto-fit of a view with a non-empty curve, the X extent is
\* [tmin - 5 % of the range, tmax + 5 % of the range], or tmin - 0.001 and
\* tmax + 0.001 when the range is zero; it is not inverted and holds every
\* time sample
C9_XExtent ==
    last.fit /\ TimeSamples(W) # {} =>
        LET tmin == RMinSet(TimeSamples(W))
            tmax == RMaxSet(TimeSamples(W))
            pad == RMul(Frac(1, 20), RSub(tmax, tmin))
        IN  /\ W.xlim = IF tmin # tmax
                        THEN <<RSub(tmin, pad), RAdd(tmax, pad)>>
                        ELSE <<RSub(tmin, Frac(1, 1000)), RAdd(tmax, Frac(1, 1000))>>
            /\ RLt(W.xlim[1], W.xlim[2])
            /\ \A t \in TimeSamples(W) : RLe(W.xlim[1], t) /\ RLe(t, W.xlim[2])

\* an auto-fit of curves whose time samples are all the same instant
C9_Witness ==
    /\ last.fit
    /\ Cardinality(TimeSamples(W)) = 1
    /\ Len(W.curves_data) = 2

Visible(w, i) == i > Len(w.visible_flags) \/ w.visible_flags[i]
\* the values of the visible curves of one axis
AxisValues(w, secondary) ==
    UNION {Range(w.curves_data[i].v) :
              i \in {j \in 1..Len(w.curves_data) :
                        Visible(w, j) /\ (is_secondary(w.curves_data, j) <=> secondary)}}
\* min and max padded by 10 % of the range, or of |value|, or [-1, 1] around 0
Padded(S) ==
    LET lo == RMinSet(S)
        hi == RMaxSet(S)
        tenth == RMul(Frac(1, 10), IF lo # hi THEN RSub(hi, lo) ELSE RAbs(lo))
    IN  IF lo = hi /\ lo = R(0) THEN <<R(-1), R(1)>>
        ELSE <<RSub(lo, tenth), RAdd(hi, tenth)>>

\* C10: after an auto-fit, the primary Y extent is the padded min/max of the
\* values of the visible primary curves (the initial Y extent when there are
\* none), and the extent of the secondary axis is the padded min/max of the
\* values of the visible secondary curves
C10_YExtents ==
    last.fit /\ Len(W.curves_data) > 0 =>
        /\ W.ylim = IF AxisValues(W, FALSE) # {} THEN Padded(AxisValues(W, FALSE))
                    ELSE W.initial_y_limits
        /\ W.secax.present /\ AxisValues(W, TRUE) # {}
              => W.secax.ylim = Padded(AxisValues(W, TRUE))

\* an auto-fit of a view with a hidden curve and a secondary axis
C10_Witness ==
    /\ last.fit
    /\ W.secax.present
    /\ \E i \in 1..Len(W.curves_data) : ~Visible(W, i)

\* C11: auto_fit of a view that holds curves, all of them without samples,
\* returns without raising; and the X extent an auto_fit gives a view that
\* holds empty and non-empty curves frames the samples of the non-empty ones
C11_EmptyCurvesFit ==
    \A k \in Windows :
        LET w == ALL_PLOT_WINDOWS[k]
            fit == auto_calibrate_plot(w)
        IN  Len(w.curves_data) > 0 =>
                /\ ~fit.raised
                /\ TimeSamples(w) # {} =>
                      /\ RLe(fit.w.xlim[1], RMinSet(TimeSamples(w)))
                      /\ RLe(RMaxSet(TimeSamples(w)), fit.w.xlim[2])

\* the measurement last records: the curve, the samples inside the window in
\* curve order
Measuring == last.op = "measure_on_curve"
MeasuredCurve(ws, l) == ws[active].curves_data[l.curve_index]
InWindow(l, x) ==
    /\ l.t0.is_none \/ RLe(l.t0.x, x)
    /\ l.t1.is_none \/ RLe(x, l.t1.x)
WindowIndices(ws, l) ==
    {i \in 1..Len(MeasuredCurve(ws, l).t) : InWindow(l, MeasuredCurve(ws, l).t[i])}
InOrder(S) ==
    [k \in 1..Cardinality(S) |-> CHOOSE x \in S : Cardinality({y \in S : y <= x}) = k]
WindowTimes == LET idx == InOrder(WindowIndices(ALL_PLOT_WINDOWS, last))
               IN  [k \in 1..Len(idx) |-> MeasuredCurve(ALL_PLOT_WINDOWS, last).t[idx[k]]]
WindowValues == LET idx == InOrder(WindowIndices(ALL_PLOT_WINDOWS, last))
                IN  [k \in 1..Len(idx) |-> MeasuredCurve(ALL_PLOT_WINDOWS, last).v[idx[k]]]

\* C12: a measurement of a curve that has exactly one sample fails, with or
\* without a time window
C12_OneSampleFails ==
    Measuring /\ Len(MeasuredCurve(ALL_PLOT_WINDOWS, last).t) = 1 => last.meas.raised

\* C13: a measurement with a window leaves the curves of the views as they
\* are; it fails when fewer than 2 samples have t0 <= time <= t1 (a bound left
\* empty does not restrict), and otherwise v_min and v_max are the smallest
\* and the largest value of exactly those samples
C13_Window ==
    [][MeasureAutoDialog /\ last'.op = "measure_on_curve"
                         /\ ~(last'.t0.is_none /\ last'.t1.is_none) =>
        LET S == WindowIndices(ALL_PLOT_WINDOWS, last')
            c == MeasuredCurve(ALL_PLOT_WINDOWS, last')
        IN  /\ ALL_PLOT_WINDOWS' = ALL_PLOT_WINDOWS
            /\ IF Cardinality(S) < 2
               THEN last'.meas.raised
               ELSE /\ ~last'.meas.raised
                    /\ last'.meas.v_min = RMinSet({c.v[i] : i \in S})
                    /\ last'.meas.v_max = RMaxSet({c.v[i] : i \in S})]_vars

\* a measurement between two sample times that leaves samples out on both
\* sides and keeps the two samples at the bounds
C13_Witness ==
    /\ Measuring
    /\ ~last.meas.raised
    /\ ~last.t0.is_none /\ ~last.t1.is_none
    /\ last.t0.x \in Range(WindowTimes)
    /\ last.t1.x \in Range(WindowTimes)
    /\ Len(WindowTimes) + 2 <= Len(MeasuredCurve(ALL_PLOT_WINDOWS, last).t)

\* C14: a measurement of at least 2 samples that all have the same value gives
\* no period and no frequency, and v_min = v_max = that value
C14_ConstantValues ==
    Measuring /\ ~last.meas.raised /\ Len(WindowValues) >= 2
              /\ Cardinality(Range(WindowValues)) = 1 =>
        /\ last.meas.T_mean_s.is_none
        /\ last.meas.f_Hz.is_none
        /\ last.meas.v_min = last.meas.v_max
        /\ last.meas.v_min \in Range(WindowValues)

\* a measurement of 3 equal values in the window of a curve that is not constant
C14_Witness ==
    /\ Measuring
    /\ ~last.meas.raised
    /\ Len(WindowValues) >= 3
    /\ Cardinality(Range(WindowValues)) = 1
    /\ Cardinality(Range(MeasuredCurve(ALL_PLOT_WINDOWS, last).v)) > 1

\* the peak stage and the fallback stage on arrays t, v
PeakStage(v) ==
    {i \in 2..(Len(v) - 1) :
        /\ RLt(v[i - 1], v[i])
        /\ RLt(v[i + 1], v[i])
        /\ RLe(RAdd(RMinSet(Range(v)),
                    RMul(Frac(1, 5), RSub(RMaxSet(Range(v)), RMinSet(Range(v))))), v[i])}
UpwardCrossings(v) ==
    {i \in 1..(Len(v) - 1) : RLt(v[i], Mean(v)) /\ RLe(Mean(v), v[i + 1])}
Interpolated(t, v, i) ==
    RAdd(t[i], RMul(RDiv(RSub(Mean(v), v[i]), RSub(v[i + 1], v[i])), RSub(t[i + 1], t[i])))
StageTimes(t, v) ==
    IF Cardinality(PeakStage(v)) >= 2
    THEN [k \in 1..Cardinality(PeakStage(v)) |-> t[InOrder(PeakStage(v))[k]]]
    ELSE [k \in 1..Cardinality(UpwardCrossings(v)) |->
             Interpolated(t, v, InOrder(UpwardCrossings(v))[k])]

\* C15: the timestamps of a measurement are the times of the peak stage when
\* it finds at least 2 peaks, and otherwise the interpolated upward crossings
\* of the mean; with fewer than 2 timestamps there is no period
C15_Timestamps ==
    Measuring /\ ~last.meas.raised =>
        IF Len(StageTimes(WindowTimes, WindowValues)) < 2
        THEN last.meas.T_mean_s.is_none
        ELSE last.meas.peak_times = StageTimes(WindowTimes, WindowValues)

\* a measurement timed by crossings although the curve has a local maximum
C15_Witness ==
    /\ Measuring
    /\ ~last.meas.raised
    /\ Len(last.meas.peak_times) >= 2
    /\ Cardinality(PeakStage(WindowValues)) < 2
    /\ \E i \in 2..(Len(WindowValues) - 1) :
          /\ RLt(WindowValues[i - 1], WindowValues[i])
          /\ RLt(WindowValues[i + 1], WindowValues[i])

\* the differences of the timestamps that are under 10 times their median
Surviving(times) ==
    LET under(d) == RLt(d, RMul(R(10), Median(Diff(times))))
    IN  SelectSeq(Diff(times), under)

\* C16: when a measurement reports at least 2 timestamps, its period is the
\* mean of the differences d of consecutive timestamps with d < 10 * median,
\* and there is no period when no difference is kept; whenever there is a
\* period, the frequency is its inverse
C16_Period ==
    Measuring /\ ~last.meas.raised /\ Len(last.meas.peak_times) >= 2 =>
        /\ IF Len(Surviving(last.meas.peak_times)) = 0
           THEN last.meas.T_mean_s.is_none
           ELSE last.meas.T_mean_s = Num(Mean(Surviving(last.meas.peak_times)))
        /\ ~last.meas.T_mean_s.is_none =>
              /\ ~last.meas.f_Hz.is_none
              /\ RMul(last.meas.f_Hz.x, last.meas.T_mean_s.x) = R(1)

\* the 100 samples of a sine of period 0.02 s over 0.1 s, last sample at
\* 0.1 s or one sampling step before it
IsSine(c) == \E f \in SineFiles : c.t = f.t /\ c.v = f.v

\* C17: the measurement of the whole sine of period 0.02 s sampled at 100
\* points over 0.1 s gives a period within 5 % of 0.02 s and a frequency
\* within 5 % of 50 Hz
C17_Sine ==
    Measuring /\ last.t0.is_none /\ last.t1.is_none
              /\ IsSine(MeasuredCurve(ALL_PLOT_WINDOWS, last)) =>
        /\ ~last.meas.raised
        /\ ~last.meas.T_mean_s.is_none
        /\ RLe(RAbs(RSub(last.meas.T_mean_s.x, Frac(1, 50))), Frac(1, 1000))
        /\ ~last.meas.f_Hz.is_none
        /\ RLe(RAbs(RSub(last.meas.f_Hz.x, R(50))), Frac(5, 2))

\* the sine whose last sample is at 0.1 s has been measured: its peaks are
\* not evenly spaced
C17_Witness ==
    /\ Measuring
    /\ last.t0.is_none /\ last.t1.is_none
    /\ Len(MeasuredCurve(ALL_PLOT_WINDOWS, last).t) = 100
    /\ MeasuredCurve(ALL_PLOT_WINDOWS, last).t[100] = Frac(1, 10)
    /\ last.meas.n_peaks = 5
    /\ last.meas.T_mean_s # Num(Frac(1, 50))

\* d has the forward differences of c at the midpoints of its steps
IsDerivative(c, d) ==
    /\ Len(c.t) >= 2
    /\ Len(d.t) = Len(c.t) - 1
    /\ Len(d.v) = Len(c.t) - 1
    /\ \A k \in 1..(Len(c.t) - 1) :
          /\ RMul(d.v[k], RSub(c.t[k + 1], c.t[k])) = RSub(c.v[k + 1], c.v[k])
          /\ RMul(d.t[k], R(2)) = RAdd(c.t[k], c.t[k + 1])
LastCurve(w) == w.curves_data[Len(w.curves_data)]

\* C18: the derivative of a curve of n >= 2 samples is computed, and has n - 1
\* samples, the k-th with value (v[k+1] - v[k]) / (t[k+1] - t[k]) at time
\* (t[k] + t[k+1]) / 2; the curve a derivative adds to the view is such a
\* curve for one of the curves of the view
C18_Derivative ==
    [][CalculerDeriveeSpectrum =>
        /\ \A i \in 1..Len(W.curves_data) :
              Len(W.curves_data[i].t) >= 2 =>
                  /\ calculer_derivee(W, i).msg = ""
                  /\ IsDerivative(W.curves_data[i], LastCurve(calculer_derivee(W, i).w))
        /\ Len(W'.curves_data) > Len(W.curves_data) =>
              \E i \in 1..Len(W.curves_data) : IsDerivative(W.curves_data[i], LastCurve(W'))]_vars

\* the derivative of the squares of 0..4: 1, 3, 5, 7 at 0.5, 1.5, 2.5, 3.5
C18_Witness ==
    /\ last.op = "calculer_derivee"
    /\ last.msg = ""
    /\ W.curves_data[1].v = RSeq(<<0, 1, 4, 9, 16>>)
    /\ LastCurve(W).v = RSeq(<<1, 3, 5, 7>>)
    /\ LastCurve(W).t = <<Frac(1, 2), Frac(3, 2), Frac(5, 2), Frac(7, 2)>>

\* C19: the derivative of a curve of fewer than 2 samples is refused and the
\* spectrum of such a curve is empty; a derivative or a spectrum asked in a
\* view whose curves all have fewer than 2 samples shows a message and leaves
\* every view (curves, flags, removed curves, extents), the number of tabs and
\* the active tab as they are
C19_TooShort ==
    [][CalculerDeriveeSpectrum \/ FftDialog =>
        /\ \A i \in 1..Len(W.curves_data) :
              Len(W.curves_data[i].t) < 2 =>
                  /\ calculer_derivee(W, i).msg # ""
                  /\ calculer_derivee(W, i).w = W
                  /\ compute_fft_for_curve(W.curves_data[i].t) = <<>>
        /\ (\A i \in 1..Len(W.curves_data) : Len(W.curves_data[i].t) < 2) =>
              /\ last'.msg # ""
              /\ UNCHANGED <<ALL_PLOT_WINDOWS, active>>]_vars

\* a spectrum has just been refused for lack of samples in a view whose only
\* curve has one sample
C19_Witness ==
    /\ last.op = "fft_dialog"
    /\ last.msg = "Impossible de calculer la FFT (donnees insuffisantes)."
    /\ Len(ALL_PLOT_WINDOWS) = 1
    /\ Len(W.curves_data) = 1
    /\ Len(W.curves_data[1].t) = 1

\* C20: a derivative that adds a curve adds it after the curves the view had,
\* with is_raw false, and the curve is on the secondary axis, which the view
\* then has
C20_DerivativeSecondary ==
    [][CalculerDeriveeSpectrum /\ Len(W'.curves_data) > Len(W.curves_data) =>
        /\ SubSeq(W'.curves_data, 1, Len(W'.curves_data) - 1) = W.curves_data
        /\ ~LastCurve(W').is_raw
        /\ is_secondary(W'.curves_data, Len(W'.curves_data))
        /\ W'.secax.present]_vars

\* the derivative of a second curve with a unit, in a view whose first curve
\* has none
C20_Witness ==
    /\ last.op = "calculer_derivee"
    /\ last.msg = ""
    /\ Len(W.curves_data) = 3
    /\ W.curves_data[1].nom = "Courbe"
    /\ W.curves_data[2].nom = "U (V)"
    /\ IsDerivative(W.curves_data[2], W.curves_data[3])
    /\ W.secax.present

\* a fit of the selected curve has just run (curve_fit was called)
Fitting(l) == l.op = "modeliser" /\ "model" \in DOMAIN l

\* the x-samples a fit works on: the times of the selected curve, where the
\* power model has the times <= 0 replaced by 1e-6
FitSamples(model, t) ==
    [k \in 1..Len(t) |->
        IF model = "Puissance" /\ (t[k][1] <= 0) THEN Frac(1, 1000000) ELSE t[k]]

\* C21: a fit is all-or-nothing.  When curve_fit succeeds exactly one curve is
\* appended, with is_raw = FALSE and the x-samples of the fit as its times;
\* when it does not converge or fails otherwise, an error is shown and the
\* tab (curves, flags, colours, trash, extents) is what it was
C21_FitAllOrNothing ==
    [][Fitting(last') =>
        LET w == ALL_PLOT_WINDOWS[active]
            w2 == ALL_PLOT_WINDOWS'[active]
            n == Len(w.curves_data)
        IN  IF last'.outcome = "ok"
            THEN /\ Len(w2.curves_data) = n + 1
                 /\ SubSeq(w2.curves_data, 1, n) = w.curves_data
                 /\ ~w2.curves_data[n + 1].is_raw
                 /\ w2.curves_data[n + 1].t =
                        FitSamples(last'.model, w.curves_data[last'.index].t)
                 /\ w2.removed_curves = w.removed_curves
            ELSE /\ last'.msg # ""
                 /\ w2 = w]_vars

\* a fit that did not converge, in a tab that holds the curve of an earlier fit
C21_Witness ==
    /\ Fitting(last)
    /\ last.outcome = "RuntimeError"
    /\ last.model \in {"Exp", "Puissance"}
    /\ \E i \in 1..Len(W.curves_data) :
          /\ ~W.curves_data[i].is_raw
          /\ W.curves_data[i].t[1] = Frac(1, 1000000)

\* the curves of the tab that are spectra of 1000 samples
SpectraOf(w) == {i \in 1..Len(w.curves_data) : Len(w.curves_data[i].t) = 501}

\* the bins where the amplitude of a spectrum is largest
PeakBins(c) == UNION {{k \in 1..Len(c.v) : c.v[k] = m} : m \in {RMaxSeq(c.v)}}

\* C22: the spectrum of a sinusoid of amplitude 2.0 at 50 Hz sampled at
\* 1000 Hz for 1 s has its global maximum within one bin width of 50 Hz, and
\* the amplitude there is within 10 % of 2.0
C22_SpectrumPeak ==
    \A n \in 1..Len(ALL_PLOT_WINDOWS) :
        \A i \in SpectraOf(ALL_PLOT_WINDOWS[n]) :
            LET c == ALL_PLOT_WINDOWS[n].curves_data[i]
                bin == RSub(c.t[2], c.t[1])
            IN  \A k \in PeakBins(c) :
                    /\ RLe(RAbs(RSub(c.t[k], R(50))), bin)
                    /\ RLe(RAbs(RSub(c.v[k], R(2))), Frac(2, 10))

\* the spectrum of the 50 Hz sine is shown in the second tab: 501 bins up to
\* 500 Hz with the peak at the bin of 50 Hz
C22_Witness ==
    /\ Len(ALL_PLOT_WINDOWS) = 2
    /\ ALL_PLOT_WINDOWS[1].curves_data[1].v[6] = R(2)
    /\ SpectraOf(ALL_PLOT_WINDOWS[2]) = {1}
    /\ ALL_PLOT_WINDOWS[2].curves_data[1].t[501] = R(500)
    /\ PeakBins(ALL_PLOT_WINDOWS[2].curves_data[1]) = {51}

\* the step is a call of op with the index of an element of a list of n
CallAt(l, op, n) == l.op = op /\ l.index >= 0 /\ l.index < n

\* C23: remove_curve(i) deletes curve i, keeps the order of the others and
\* appends the curve at the end of the trash; restore_curve(k) takes trash[k]
\* out of the trash and appends it at the end of the curve list, visible and
\* without a colour of its own
C23_RemoveRestore ==
    [][LET w == ALL_PLOT_WINDOWS[active]
           w2 == ALL_PLOT_WINDOWS'[active]
           n == Len(w.curves_data)
       IN  /\ CallAt(last', "remove_curve", n) =>
                /\ w2.curves_data = RemoveAt(w.curves_data, last'.index + 1)
                /\ w2.removed_curves =
                      Append(w.removed_curves, w.curves_data[last'.index + 1])
           /\ CallAt(last', "restore_curve", Len(w.removed_curves)) =>
                /\ w2.removed_curves = RemoveAt(w.removed_curves, last'.index + 1)
                /\ w2.curves_data =
                      Append(w.curves_data, w.removed_curves[last'.index + 1])
                /\ w2.visible_flags[n + 1]
                /\ w2.curve_colors[n + 1] = None]_vars

\* the step is a call of op with an index that is not one of a list of n
CallOutside(l, op, n) == l.op = op /\ (l.index < 0 \/ l.index >= n)

\* the curves, flags, colours and trash of a tab
Lists(w) == <<w.curves_data, w.visible_flags, w.curve_colors, w.removed_curves>>

\* C24: remove_curve with an index outside [0, len(curves)) and restore_curve
\* with an index outside [0, len(trash)), the empty trash included, leave the
\* curve list, the flags, the colours and the trash as they were
C24_OutOfRange ==
    [][LET w == ALL_PLOT_WINDOWS[active]
       IN  (\/ CallOutside(last', "remove_curve", Len(w.curves_data))
            \/ CallOutside(last', "restore_curve", Len(w.removed_curves)))
           => Lists(ALL_PLOT_WINDOWS'[active]) = Lists(w)]_vars

\* sample k of a curve
Pair(c, k) == <<c.t[k], c.v[k]>>

\* the samples of a are those of b, in any order
SamePairs(a, b) ==
    /\ Len(a.t) = Len(b.t)
    /\ \A k \in 1..Len(a.t) :
          Cardinality({j \in 1..Len(a.t) : Pair(a, j) = Pair(a, k)}) =
          Cardinality({j \in 1..Len(b.t) : Pair(b, j) = Pair(a, k)})

\* C25: after an edit of one cell of the table the stored curve is the one
\* before with that time or value replaced, its samples are in ascending time
\* order (sorted when the edit broke the order), and the tab has been fitted
C25_TableEdit ==
    [][(last'.op = "save_edit" /\ last'.msg = "") =>
        LET c == ALL_PLOT_WINDOWS[active].curves_data[last'.index]
            c2 == ALL_PLOT_WINDOWS'[active].curves_data[last'.index]
            e == IF last'.col = "#1" THEN [c EXCEPT !.t[last'.row] = last'.value]
                 ELSE [c EXCEPT !.v[last'.row] = last'.value]
        IN  /\ SamePairs(c2, e)
            /\ c2.nom = c.nom
            /\ \A k \in 1..(Len(c2.t) - 1) : RLe(c2.t[k], c2.t[k + 1])
            /\ last'.fit]_vars

\* the handlers that add a curve to the active tab
Adding == {"start_acquisition_and_plot", "menu_ouvrir", "calculer_derivee", "modeliser"}

\* C26: a curve added by an acquisition, an import, a derivative or a fit is
\* visible and has no colour of its own right after the operation, whatever
\* was hidden or recoloured before, also when it replaces the previous curves
C26_NewCurveDefaults ==
    [][(last'.op \in Adding /\ last'.msg = "") =>
        LET w2 == ALL_PLOT_WINDOWS'[active]
            n == Len(w2.curves_data)
        IN  /\ Len(w2.visible_flags) = n
            /\ Len(w2.curve_colors) = n
            /\ w2.visible_flags[n]
            /\ w2.curve_colors[n] = None]_vars

\* the flag and the colour curve j of a tab is drawn with (a curve without an
\* entry is drawn visible, in the default colour)
FlagOf(w, j) == IF j <= Len(w.visible_flags) THEN w.visible_flags[j] ELSE TRUE
ColorOf(w, j) == IF j <= Len(w.curve_colors) THEN w.curve_colors[j] ELSE None
Drawn(w, j) == <<FlagOf(w, j), ColorOf(w, j)>>

\* the curves at the positions js are drawn as before
SameDrawn(w, w2, js) == \A j \in js : Drawn(w2, j) = Drawn(w, j)

\* C27: flag and colour stay with their curve.  After a removal the curves
\* before the removed one keep their position, flag and colour and those
\* after it move up by one with theirs; after a restore or an appending
\* acquisition the curves that were there keep theirs; a check box changes one
\* flag and no colour, a recolouring one colour and no flag
C27_Attached ==
    [][LET w == ALL_PLOT_WINDOWS[active]
           w2 == ALL_PLOT_WINDOWS'[active]
           n == Len(w.curves_data)
           n2 == Len(w2.curves_data)
           all == 1..n
       IN  CASE last'.op = "remove_curve" ->
                  LET i == PopIndex(n, last'.index)
                  IN  IF n2 = n THEN SameDrawn(w, w2, all)
                      ELSE /\ SameDrawn(w, w2, 1..(i - 1))
                           /\ \A j \in (i + 1)..n : Drawn(w2, j - 1) = Drawn(w, j)
             [] last'.op = "restore_curve" -> SameDrawn(w, w2, all)
             [] last'.op = "start_acquisition_and_plot" ->
                  (superposition_var \/ (last'.msg # "" /\ n2 = n))
                      => SameDrawn(w, w2, all)
             [] last'.op = "toggle" ->
                  /\ \E i \in all : SameDrawn(w, w2, all \ {i})
                  /\ \A j \in all : ColorOf(w2, j) = ColorOf(w, j)
             [] last'.op = "recolor_curve_dialog" ->
                  /\ \E i \in all : SameDrawn(w, w2, all \ {i})
                  /\ \A j \in all : FlagOf(w2, j) = FlagOf(w, j)
             [] OTHER -> SameDrawn(w, w2, all)]_vars

\* the first of two curves has been removed and the other one, hidden and
\* recoloured, is now the first
C27_Witness ==
    /\ last.op = "remove_curve"
    /\ last.index = 0
    /\ last.msg = ""
    /\ Len(W.curves_data) = 1
    /\ Len(W.removed_curves) = 1
    /\ W.visible_flags = <<FALSE>>
    /\ W.curve_colors = <<"#ff0000">>

\* C28: an acquisition in Normal mode that fails, for a parameter or at any
\* step from the configuration to the read-out, leaves the curve list of the
\* active tab as it was, with Superposer les courbes ticked or not
C28_FailedAcquisitionKeepsCurves ==
    [][(last'.op = "start_acquisition_and_plot" /\ last'.msg # "") =>
        ALL_PLOT_WINDOWS'[active].curves_data = ALL_PLOT_WINDOWS[active].curves_data]_vars

\* C29: for each of the four models, the curve appended by the fit of a
\* curve of the primary axis (the first curve included) is on the primary axis
C29_FitOnPrimaryAxis ==
    [][(Fitting(last') /\ last'.outcome = "ok"
          /\ ~is_secondary(ALL_PLOT_WINDOWS[active].curves_data, last'.index)) =>
        LET curves == ALL_PLOT_WINDOWS'[active].curves_data
        IN  ~is_secondary(curves, Len(curves))]_vars

\* C30: from any state of a tab, de_calibrate calls that follow each other
\* bring the display to initial_extents with the second call at the latest,
\* and every call after that reports that there is nothing to undo and leaves
\* the tab as it is (the third call leaves the state of the second, so all
\* further calls repeat it)
C30_RepeatedRevert ==
    [][DeCalibratePlot =>
        LET second == de_calibrate_plot(W')
            third == de_calibrate_plot(second.w)
        IN  /\ Shown(second.w) = Initial(W')
            /\ Initial(second.w) = Initial(W')
            /\ third.msg # ""
            /\ third.w = second.w]_vars

\* a de_calibrate has just restored extents that are not the initial ones:
\* the second call moves the display to them and the third has nothing to undo
C30_Witness ==
    /\ last.op = "de_calibrate_plot"
    /\ last.msg = ""
    /\ Shown(W) # Initial(W)
    /\ de_calibrate_plot(W).msg = ""
    /\ Shown(de_calibrate_plot(W).w) = Initial(W)
    /\ de_calibrate_plot(de_calibrate_plot(W).w).msg # ""

====
